---- MODULE Spec2Model ----
(***************************************************************************)
(* A model of the query package of andrewpillar/database: the expression   *)
(* constructors (query/expr.go), the clause options and the Query builder  *)
(* (query/query.go).                                                       *)
(*                                                                         *)
(* SQL text is a sequence of tokens.  A token is a record [s, v]: s is the *)
(* piece of text, v is the value bound at that place when the token is a   *)
(* placeholder (None otherwise).  The text the program returns is Str of    *)
(* the sequence: the concatenation of the s fields.  Every string of the    *)
(* model's universe either is the placeholder "?" or holds no "?", so the   *)
(* byte scan of Query.Build for "?" is a scan for the tokens whose s is     *)
(* "?".                                                                     *)
(*                                                                         *)
(* A Go value of type any is a record with a type field: a plain value is   *)
(* [type |-> "val", val |-> ...], an expression is one of the records the   *)
(* constructors below return, a *Query is a record of type "query".         *)
(***************************************************************************)
EXTENDS Integers, Sequences, FiniteSets, TLC

----------------------------------------------------------------------------
(* Text *)

None == [type |-> "none"]

Tk(s) == [s |-> s, v |-> None]

Ph(v) == [s |-> "?", v |-> v]

Txt(s) == <<Tk(s)>>

(* The text as the program's string: the pieces concatenated (by halves). *)
RECURSIVE Str(_)
Str(text) ==
  IF Len(text) = 0 THEN ""
  ELSE IF Len(text) = 1 THEN text[1].s
  ELSE LET mid == Len(text) \div 2
       IN Str(SubSeq(text, 1, mid)) \o Str(SubSeq(text, mid + 1, Len(text)))

RECURSIVE Flat(_)
Flat(texts) == IF texts = <<>> THEN <<>> ELSE Head(texts) \o Flat(Tail(texts))

RECURSIVE JoinT(_, _)
JoinT(texts, sep) ==
  IF texts = <<>> THEN <<>>
  ELSE IF Len(texts) = 1 THEN Head(texts)
  ELSE Head(texts) \o Txt(sep) \o JoinT(Tail(texts), sep)

Val(x) == [type |-> "val", val |-> x]

----------------------------------------------------------------------------
(* Expressions: query/expr.go *)

Exprs(e) == [type |-> "exprs", es |-> e]

Columns(cols) ==
  [type |-> "list", items |-> [i \in 1..Len(cols) |-> Txt(cols[i])],
   wrap |-> FALSE, args |-> <<>>]

Ident(s) == [type |-> "ident", name |-> s]

Arg(val) == [type |-> "arg", val |-> val]

Lit(val) == [type |-> "lit", val |-> val]

Call(name, args) == [type |-> "call", name |-> name, args |-> args]

Sum(expr) == Call("SUM", <<expr>>)

Lower(expr) == Call("LOWER", <<expr>>)

Count(cols) == Call("COUNT", [i \in 1..Len(cols) |-> Lit(Txt(cols[i]))])

And(conds) == [type |-> "andor", conj |-> " AND ", conds |-> conds]

Or(conds) == [type |-> "andor", conj |-> " OR ", conds |-> conds]

Op(a, op, b) == [type |-> "op", left |-> a, op |-> op, right |-> b]

Eq(a, b) == Op(a, "=", b)

Neq(a, b) == Op(a, "!=", b)

Gt(a, b) == Op(a, ">", b)

Like(a, b) == Op(a, "LIKE", b)

Is(a, b) == Op(a, "IS", b)

IsNot(a, b) == Op(a, "IS NOT", b)

In(a, b) == Op(a, "IN", b)

As(in, out) == [type |-> "as", in |-> in, out |-> out]

ColumnAs(in, out) == As(Ident(in), out)

RECURSIVE ExprArgs(_)
RECURSIVE ArgsOfSeq(_)
RECURSIVE ExprBuild(_)
RECURSIVE BuildSeq(_)
RECURSIVE buildInitial(_)
RECURSIVE clauseBuild(_)
RECURSIVE ClausesText(_, _)

(* The arguments of the expressions of a sequence, appended in order. *)
ArgsOfSeq(es) ==
  IF es = <<>> THEN <<>> ELSE ExprArgs(Head(es)) \o ArgsOfSeq(Tail(es))

(* Expr.Args of every expression type; Query.Args returns q.args. *)
ExprArgs(e) ==
  CASE e.type = "exprs" -> ArgsOfSeq(e.es)
    [] e.type = "list"  -> e.args
    [] e.type = "ident" -> <<>>
    [] e.type = "arg"   -> <<e.val>>
    [] e.type = "lit"   -> <<>>
    [] e.type = "call"  -> ArgsOfSeq(e.args)
    [] e.type = "andor" -> ArgsOfSeq(e.conds)
    [] e.type = "op"    -> ExprArgs(e.left) \o ExprArgs(e.right)
    [] e.type = "as"    -> <<>>
    [] e.type = "query" -> e.args

(* Query.Build's scan: the k-th "?" from the left becomes "$" and param + k. *)
Renumber(text, param) ==
  [i \in 1..Len(text) |->
     IF text[i].s = "?"
     THEN [s |-> "$" \o ToString(param + Cardinality({j \in 1..i : text[j].s = "?"})),
           v |-> text[i].v]
     ELSE text[i]]

Build(q) == Renumber(buildInitial(q), 0)

BuildSeq(es) ==
  IF es = <<>> THEN <<>> ELSE <<ExprBuild(Head(es))>> \o BuildSeq(Tail(es))

(* opOperand with the sub-query numbered on its own, as Query.Build does. *)
opOperand_Numbered(e) ==
  IF e.type = "query"
  THEN Txt("(") \o Build(e) \o Txt(")")
  ELSE ExprBuild(e)

(* The operand of a comparison: a *Query is written unnumbered in parentheses. *)
opOperand(e) ==
  IF e.type = "query"
  THEN Txt("(") \o buildInitial(e) \o Txt(")")
  ELSE ExprBuild(e)

(* Expr.Build of every expression type; Query.Build numbers its own text. *)
ExprBuild(e) ==
  CASE e.type = "exprs" -> JoinT(BuildSeq(e.es), ", ")
    [] e.type = "list"  ->
         IF e.wrap THEN Txt("(") \o JoinT(e.items, ", ") \o Txt(")")
         ELSE JoinT(e.items, ", ")
    [] e.type = "ident" -> Txt(e.name)
    [] e.type = "arg"   -> <<Ph(e.val)>>
    [] e.type = "lit"   -> e.val
    [] e.type = "call"  ->
         Txt(e.name) \o Txt("(") \o JoinT(BuildSeq(e.args), ", ") \o Txt(")")
    [] e.type = "andor" -> JoinT(BuildSeq(e.conds), e.conj)
    [] e.type = "op"    ->
         opOperand(e.left) \o Txt(" ") \o Txt(e.op) \o Txt(" ") \o opOperand(e.right)
    [] e.type = "as"    ->
         ExprBuild(e.in) \o Txt(" AS '") \o Txt(e.out) \o Txt("'")
    [] e.type = "query" -> Build(e)

(* listItem with a literal bound as an argument like a plain value. *)
listItem_LitBound(val) ==
  CASE val.type = "list"  -> [text |-> ExprBuild(val), args |-> <<val>>]
    [] val.type = "ident" -> [text |-> ExprBuild(val), args |-> <<>>]
    [] OTHER              -> [text |-> <<Ph(val)>>, args |-> <<val>>]

(* listItem with an inner list's own arguments appended in place of the list. *)
listItem_Flattens(val) ==
  CASE val.type = "list"  -> [text |-> ExprBuild(val), args |-> val.args]
    [] val.type = "lit"   -> [text |-> ExprBuild(val), args |-> <<>>]
    [] val.type = "ident" -> [text |-> ExprBuild(val), args |-> <<>>]
    [] OTHER              -> [text |-> <<Ph(val)>>, args |-> <<val>>]

(* One item of List: its text and what it appends to the list's args. *)
listItem(val) ==
  CASE val.type = "list"  -> [text |-> ExprBuild(val), args |-> <<val>>]
    [] val.type = "lit"   -> [text |-> ExprBuild(val), args |-> <<>>]
    [] val.type = "ident" -> [text |-> ExprBuild(val), args |-> <<>>]
    [] OTHER              -> [text |-> <<Ph(val)>>, args |-> <<val>>]

List(vals) ==
  [type |-> "list",
   items |-> [i \in 1..Len(vals) |-> listItem(vals[i]).text],
   wrap |-> TRUE,
   args |-> Flat([i \in 1..Len(vals) |-> listItem(vals[i]).args])]

----------------------------------------------------------------------------
(* Clauses: the clause types and their options *)

_fromClause == "FROM"

_limitClause == "LIMIT"

_offsetClause == "OFFSET"

_orderClause == "ORDER BY"

_unionClause == "UNION"

_valuesClause == "VALUES"

_whereClause == "WHERE"

_returningClause == "RETURNING"

_setClause == "SET"

_joinClause == "JOIN"

deleteStmt == "DELETE"

insertStmt == "INSERT"

selectStmt == "SELECT"

updateStmt == "UPDATE"

selectDistinctStmt == "SELECT DISTINCT"

selectDistinctOnStmt == "SELECT DISTINCT ON"

(* The zero value of statement: the Query that Union returns has no statement. *)
noStmt == ""

(* A Query as the constructors make it. *)
NewQuery(stmt, table, exprs) ==
  [type |-> "query", stmt |-> stmt, table |-> table, exprs |-> exprs,
   clauses |-> <<>>, args |-> <<>>]

appendClause(q, cl, args) ==
  [q EXCEPT !.clauses = Append(q.clauses, cl), !.args = q.args \o args]

(* where with the new arguments put before those already accumulated. *)
where_Prepends(conj, expr, q) ==
  [q EXCEPT !.clauses = Append(q.clauses,
                               [kind |-> _whereClause, conj |-> conj, expr |-> expr]),
            !.args = ExprArgs(expr) \o q.args]

where(conj, expr, q) ==
  appendClause(q, [kind |-> _whereClause, conj |-> conj, expr |-> expr],
               ExprArgs(expr))

Where(expr, q) == where("AND", expr, q)

OrWhere(expr, q) == where("OR", expr, q)

WhereEq(col, expr, q) == where("AND", Eq(Ident(col), expr), q)

WhereIn(col, expr, q) == where("AND", In(Ident(col), expr), q)

WhereLike(col, expr, q) == where("AND", Like(Ident(col), expr), q)

WhereIsNil(col, q) == where("AND", Is(Ident(col), Lit(Txt("NULL"))), q)

OrWhereEq(col, expr, q) == OrWhere(Eq(Ident(col), expr), q)

From(table, q) ==
  appendClause(q, [kind |-> _fromClause, table |-> table, alias |-> ""], <<>>)

FromAs(table, alias, q) ==
  appendClause(q, [kind |-> _fromClause, table |-> table, alias |-> alias], <<>>)

Limit(n, q) == appendClause(q, [kind |-> _limitClause, n |-> n], <<>>)

Offset(n, q) == appendClause(q, [kind |-> _offsetClause, n |-> n], <<>>)

OrderAsc(cols, q) ==
  appendClause(q, [kind |-> _orderClause, cols |-> cols, dir |-> "ASC"], <<>>)

OrderDesc(cols, q) ==
  appendClause(q, [kind |-> _orderClause, cols |-> cols, dir |-> "DESC"], <<>>)

Returning(cols, q) ==
  appendClause(q, [kind |-> _returningClause, cols |-> cols], <<>>)

(* Set without the test of the statement kind. *)
Set_AnyStatement(col, expr, q) ==
  appendClause(q, [kind |-> _setClause, col |-> col,
                   expr |-> Lit(ExprBuild(expr))],
               ExprArgs(expr))

Set(col, expr, q) ==
  IF q.stmt = updateStmt
  THEN appendClause(q, [kind |-> _setClause, col |-> col,
                        expr |-> Lit(ExprBuild(expr))],
                    ExprArgs(expr))
  ELSE q

Values(vals, q) ==
  appendClause(q, [kind |-> _valuesClause,
                   items |-> [i \in 1..Len(vals) |-> <<Ph(vals[i])>>],
                   args |-> vals],
               vals)

Join(table, expr, q) ==
  appendClause(q, [kind |-> _joinClause, table |-> table, expr |-> expr], <<>>)

(* clause.Build of every clause type. *)
clauseBuild(cl) ==
  CASE cl.kind = _whereClause     -> ExprBuild(cl.expr)
    [] cl.kind = _fromClause      ->
         IF cl.alias = "" THEN Txt(cl.table)
         ELSE Txt(cl.table) \o Txt(" AS ") \o Txt(cl.alias)
    [] cl.kind = _limitClause     -> Txt(ToString(cl.n))
    [] cl.kind = _offsetClause    -> Txt(ToString(cl.n))
    [] cl.kind = _orderClause     ->
         JoinT([i \in 1..Len(cl.cols) |-> Txt(cl.cols[i])], ", ")
         \o Txt(" ") \o Txt(cl.dir)
    [] cl.kind = _unionClause     -> buildInitial(cl.q)
    [] cl.kind = _returningClause ->
         JoinT([i \in 1..Len(cl.cols) |-> Txt(cl.cols[i])], ", ")
    [] cl.kind = _setClause       ->
         Txt(cl.col) \o Txt(" = ") \o ExprBuild(cl.expr)
    [] cl.kind = _valuesClause    ->
         Txt("(") \o JoinT(cl.items, ", ") \o Txt(")")
    [] cl.kind = _joinClause      ->
         Txt(cl.table) \o Txt(" ON ") \o ExprBuild(cl.expr)

----------------------------------------------------------------------------
(* The Query builder: query/query.go *)

Select(expr) == NewQuery(selectStmt, "", <<expr>>)

SelectDistinct(expr) == NewQuery(selectDistinctStmt, "", <<expr>>)

SelectDistinctOn(expr1, expr2) == NewQuery(selectDistinctOnStmt, "", <<expr1, expr2>>)

Insert(table, expr) == NewQuery(insertStmt, table, <<expr>>)

Update(table) == NewQuery(updateStmt, table, <<>>)

Delete(table) == NewQuery(deleteStmt, table, <<>>)

RECURSIVE unionArgs(_)
unionArgs(queries) ==
  IF queries = <<>> THEN <<>> ELSE Head(queries).args \o unionArgs(Tail(queries))

Union(queries) ==
  [type |-> "query", stmt |-> noStmt, table |-> "", exprs |-> <<>>,
   clauses |-> [i \in 1..Len(queries) |-> [kind |-> _unionClause, q |-> queries[i]]],
   args |-> unionArgs(queries)]

(* Query.conj of a clause that is not nil. *)
(* conj with the one-space default for every kind but WHERE. *)
conj_SpaceDefault(cl) ==
  CASE cl.kind = _whereClause -> " " \o cl.conj \o " "
    [] OTHER -> " "

conj(cl) ==
  CASE cl.kind = _whereClause -> " " \o cl.conj \o " "
    [] cl.kind = _unionClause -> " " \o _unionClause \o " "
    [] cl.kind \in {_setClause, _valuesClause, _orderClause} -> ", "
    [] OTHER -> " "

(* wrap without the test that the previous clause is of the same kind. *)
wrap_AnyPrev(q, i) ==
  /\ i > 1
  /\ conj(q.clauses[i + 1]) # conj(q.clauses[i])

(* Whether the text between clause i and a next clause of its kind closes one
   parenthesis group and opens another. *)
wrap(q, i) ==
  /\ i > 1
  /\ q.clauses[i - 1].kind = q.clauses[i].kind
  /\ conj(q.clauses[i + 1]) # conj(q.clauses[i])

(* The statement keyword and the table reference. *)
stmtText(q) ==
  (IF q.stmt # noStmt THEN Txt(q.stmt) ELSE <<>>)
  \o (CASE q.stmt = insertStmt -> Txt(" INTO ") \o Txt(q.table)
        [] q.stmt = updateStmt -> Txt(" ") \o Txt(q.table) \o Txt(" ")
        [] q.stmt = deleteStmt -> Txt(" FROM ") \o Txt(q.table) \o Txt(" ")
        [] OTHER -> <<>>)

(* One pass of the loop over q.exprs. *)
exprText(q, i) ==
  Txt(" ")
  \o (IF q.stmt = insertStmt THEN Txt("(") ELSE <<>>)
  \o ExprBuild(q.exprs[i])
  \o (IF q.stmt = insertStmt THEN Txt(")") ELSE <<>>)
  \o (IF q.stmt = selectDistinctOnStmt /\ i = 1 THEN <<>> ELSE Txt(" "))

(* What one pass of the loop over q.clauses writes before the clause's text. *)
clauseOpen(q, i) ==
  LET kind == q.clauses[i].kind IN
  IF kind # _unionClause /\ ~ \E j \in 1..(i - 1) : q.clauses[j].kind = kind
  THEN Txt(kind) \o Txt(" ") \o (IF kind = _whereClause THEN Txt("(") ELSE <<>>)
  ELSE <<>>

(* What one pass of the loop over q.clauses writes after the clause's text. *)
clauseClose(q, i) ==
  LET kind == q.clauses[i].kind
      n    == Len(q.clauses)
  IN (IF i < n
      THEN IF q.clauses[i + 1].kind = kind
           THEN (IF wrap(q, i) THEN Txt(")") ELSE <<>>)
                \o Txt(conj(q.clauses[i + 1]))
                \o (IF wrap(q, i) THEN Txt("(") ELSE <<>>)
           ELSE (IF kind = _whereClause THEN Txt(")") ELSE <<>>) \o Txt(" ")
      ELSE <<>>)
     \o (IF i = n /\ kind = _whereClause THEN Txt(")") ELSE <<>>)

(* The passes of the loop over q.clauses from clause i on. *)
ClausesText(q, i) ==
  IF i > Len(q.clauses) THEN <<>>
  ELSE clauseOpen(q, i) \o clauseBuild(q.clauses[i]) \o clauseClose(q, i)
       \o ClausesText(q, i + 1)

buildInitial(q) ==
  stmtText(q)
  \o Flat([i \in 1..Len(q.exprs) |-> exprText(q, i)])
  \o ClausesText(q, 1)

Args(q) == q.args

----------------------------------------------------------------------------
(* Bounds and the inputs the operations are applied to *)

(* The most options applied to one Query under Spec. *)
MaxOpts == 2

(* The most options applied to one Query under SpecWhere. *)
MaxWhereOpts == 4

(* The most items handed to List under SpecList. *)
MaxItems == 3

(* The highest positional token looked for in a built text. *)
MaxSlot == 12

SubTags ==
  WhereLike("name", Arg(Val("%foo%")), From("post_tags", Select(Columns(<<"post_id">>))))

SubCount == From("t2", Select(Count(<<"c">>)))

SubNs == WhereEq("user_id", Arg(Val("2")), From("namespaces", Select(Columns(<<"id">>))))

SubUnion == Union(<<SubTags, SubNs>>)

ProjExprs ==
  {Columns(<<"*">>), Sum(Ident("size")), Arg(Val("p")), As(Arg(Val("p")), "x"),
   ColumnAs("id", "t.id")}

WhereExprs ==
  {Eq(Ident("user_id"), Arg(Val("1"))),
   Is(Ident("deleted_at"), Lit(Txt("NULL"))),
   In(Ident("id"), List(<<Val("1"), Val("2")>>)),
   In(Ident("id"), SubTags),
   Eq(SubTags, Arg(Val("9"))),
   Gt(Ident("n"), SubCount),
   In(Ident("root_id"), SubUnion),
   SubTags}

SetExprs == {Arg(Val("val")), Lit(Txt("NOW()")), SubTags}

JoinExprs ==
  {Eq(Ident("posts.user_id"), Ident("users.id")),
   Eq(Ident("users.name"), Arg(Val("bob")))}

ValuesInputs == {<<Val("x"), Val("y")>>}

WhereAtoms == {Lit(Txt("a")), Lit(Txt("b")), Lit(Txt("c"))}

ListItems ==
  {Val("1"), Val("2"), Val("3"),
   Lit(Txt("NOW()")), Ident("id"),
   Lower(Arg(Val("a"))), Lower(Arg(Val("b"))), Lower(Arg(Val("c"))),
   List(<<Val("1"), Val("foo")>>), List(<<Val("2"), Val("bar")>>)}

ListLefts == {Ident("(id, title)"), Lower(Ident("col"))}

ListBases == {Delete("posts"), From("t", Select(Columns(<<"*">>)))}

----------------------------------------------------------------------------
(* The state machine: a Query is constructed, options are applied to it in
   call order, and Build renders it. *)

VARIABLES
  pc,    \* "new": no Query yet; "opts": constructed; "built": Build has run
  q,     \* the Query
  hist,  \* the constructor and the options called so far, with what was handed
  sql,   \* the text Build returned
  vals,  \* the values collected for List
  spc,    \* the Scanner: "idle", "open" (a cursor with a current row), "done"
  cols,   \* sc.cols: the column names of the cursor
  row,    \* the values of the cursor's current row, one per column
  model,  \* the Model handed to Scan
  before, \* the Model as it was when Scan was called
  serr,   \* the error Scan returned
  ftab,   \* the structFields that Scan resolved the columns with
  handed, \* the destinations of every call of the cursor's positional scan
  rowarg, \* the Columns of the Row of each call of the Model's own Scan
  execd,  \* the statements handed to the Store's exec function, in order
  call,   \* the last call of the Store: operation, models, fields, map order
  stq,    \* the Query the last call of the Store built, if it built one
  ret     \* the error the last call of the Store returned

queryVars == <<pc, q, hist, sql, vals>>

scanVars == <<spc, cols, row, model, before, serr, ftab, handed, rowarg>>

storeVars == <<execd, call, stq, ret>>

vars ==
  <<pc, q, hist, sql, vals, spc, cols, row, model, before, serr, ftab, handed, rowarg,
    execd, call, stq, ret>>

StoreCall(op, mm, fields, order) ==
  [op |-> op, mm |-> mm, fields |-> fields, order |-> order]

Call1(name, e) == [name |-> name, e |-> e]

Init ==
  /\ pc = "new"
  /\ q = NewQuery(noStmt, "", <<>>)
  /\ hist = <<>>
  /\ sql = <<>>
  /\ vals = <<>>
  /\ spc = "idle"
  /\ cols = <<>>
  /\ row = [cur |-> FALSE, vals |-> <<>>]
  /\ model = None
  /\ before = None
  /\ serr = None
  /\ ftab = None
  /\ handed = <<>>
  /\ rowarg = <<>>
  /\ execd = <<>>
  /\ call = StoreCall("", <<>>, <<>>, <<>>)
  /\ stq = None
  /\ ret = None

Constructed(name, e, query) ==
  /\ pc = "new"
  /\ hist = <<>>
  /\ pc' = "opts"
  /\ q' = query
  /\ hist' = <<Call1(name, e)>>

NewSelect ==
  /\ \E e \in ProjExprs : Constructed("Select", <<e>>, Select(e))
  /\ UNCHANGED <<sql, vals, scanVars, storeVars>>

NewSelectDistinct ==
  /\ \E e \in {Columns(<<"name">>)} :
       Constructed("SelectDistinct", <<e>>, SelectDistinct(e))
  /\ UNCHANGED <<sql, vals, scanVars, storeVars>>

NewSelectDistinctOn ==
  /\ \E e1 \in {List(<<Ident("namespace_id")>>)}, e2 \in {Columns(<<"id">>), Arg(Val("p"))} :
       Constructed("SelectDistinctOn", <<e1, e2>>, SelectDistinctOn(e1, e2))
  /\ UNCHANGED <<sql, vals, scanVars, storeVars>>

NewInsert ==
  /\ \E e \in {Columns(<<"title", "body">>)} :
       Constructed("Insert", <<e>>, Insert("posts", e))
  /\ UNCHANGED <<sql, vals, scanVars, storeVars>>

NewUpdate ==
  /\ Constructed("Update", <<>>, Update("t"))
  /\ UNCHANGED <<sql, vals, scanVars, storeVars>>

NewDelete ==
  /\ Constructed("Delete", <<>>, Delete("posts"))
  /\ UNCHANGED <<sql, vals, scanVars, storeVars>>

NewUnion ==
  /\ \E qs \in {<<SubTags, SubNs>>, <<SubNs, SubCount, SubTags>>} :
       Constructed("Union", qs, Union(qs))
  /\ UNCHANGED <<sql, vals, scanVars, storeVars>>

(* One option call: the Query becomes what the option returns. *)
Applied(max, name, e, query) ==
  /\ pc = "opts"
  /\ Len(hist) <= max
  /\ q' = query
  /\ hist' = Append(hist, Call1(name, e))

ApplyWhere(max, exprs) ==
  /\ \E e \in exprs : Applied(max, "Where", <<e>>, Where(e, q))
  /\ UNCHANGED <<pc, sql, vals, scanVars, storeVars>>

ApplyOrWhere(max, exprs) ==
  /\ \E e \in exprs : Applied(max, "OrWhere", <<e>>, OrWhere(e, q))
  /\ UNCHANGED <<pc, sql, vals, scanVars, storeVars>>

ApplyFrom(max) ==
  /\ \E alias \in {"", "p"} :
       Applied(max, "From", <<>>,
               IF alias = "" THEN From("posts", q) ELSE FromAs("posts", alias, q))
  /\ UNCHANGED <<pc, sql, vals, scanVars, storeVars>>

ApplyLimit(max) ==
  /\ Applied(max, "Limit", <<>>, Limit(25, q))
  /\ UNCHANGED <<pc, sql, vals, scanVars, storeVars>>

ApplyOffset(max) ==
  /\ Applied(max, "Offset", <<>>, Offset(2, q))
  /\ UNCHANGED <<pc, sql, vals, scanVars, storeVars>>

ApplyOrder(max) ==
  /\ \E dir \in {"ASC", "DESC"} :
       Applied(max, "Order", <<>>,
               IF dir = "ASC" THEN OrderAsc(<<"author">>, q)
               ELSE OrderDesc(<<"created_at">>, q))
  /\ UNCHANGED <<pc, sql, vals, scanVars, storeVars>>

ApplyReturning(max) ==
  /\ Applied(max, "Returning", <<>>, Returning(<<"id", "created_at">>, q))
  /\ UNCHANGED <<pc, sql, vals, scanVars, storeVars>>

ApplySet(max) ==
  /\ \E e \in SetExprs : Applied(max, "Set", <<e>>, Set("col", e, q))
  /\ UNCHANGED <<pc, sql, vals, scanVars, storeVars>>

ApplyValues(max) ==
  /\ \E v \in ValuesInputs : Applied(max, "Values", v, Values(v, q))
  /\ UNCHANGED <<pc, sql, vals, scanVars, storeVars>>

ApplyJoin(max) ==
  /\ \E e \in JoinExprs : Applied(max, "Join", <<e>>, Join("users", e, q))
  /\ UNCHANGED <<pc, sql, vals, scanVars, storeVars>>

DoBuild ==
  /\ pc = "opts"
  /\ pc' = "built"
  /\ sql' = Build(q)
  /\ UNCHANGED <<q, hist, vals, scanVars, storeVars>>

Next ==
  \/ NewSelect
  \/ NewSelectDistinct
  \/ NewSelectDistinctOn
  \/ NewInsert
  \/ NewUpdate
  \/ NewDelete
  \/ NewUnion
  \/ ApplyWhere(MaxOpts, WhereExprs)
  \/ ApplyOrWhere(MaxOpts, WhereExprs)
  \/ ApplyFrom(MaxOpts)
  \/ ApplyLimit(MaxOpts)
  \/ ApplyOffset(MaxOpts)
  \/ ApplyOrder(MaxOpts)
  \/ ApplyReturning(MaxOpts)
  \/ ApplySet(MaxOpts)
  \/ ApplyValues(MaxOpts)
  \/ ApplyJoin(MaxOpts)
  \/ DoBuild

Spec == Init /\ [][Next]_vars

(* Runs of WHERE clauses: only Where, OrWhere, From and Limit are applied, to
   a SELECT, with conditions that are the bare texts a, b, c. *)
NewSelectAll ==
  /\ Constructed("Select", <<Columns(<<"*">>)>>, Select(Columns(<<"*">>)))
  /\ UNCHANGED <<sql, vals, scanVars, storeVars>>

NextWhere ==
  \/ NewSelectAll
  \/ ApplyWhere(MaxWhereOpts, WhereAtoms)
  \/ ApplyOrWhere(MaxWhereOpts, WhereAtoms)
  \/ ApplyFrom(MaxWhereOpts)
  \/ ApplyLimit(MaxWhereOpts)
  \/ DoBuild

SpecWhere == Init /\ [][NextWhere]_vars

(* List: values are collected, List is called on them, and the list is the
   right operand of an IN condition of a Query that is then built. *)
AddVal ==
  /\ pc = "new"
  /\ Len(vals) < MaxItems
  /\ \E v \in ListItems : vals' = Append(vals, v)
  /\ UNCHANGED <<pc, q, hist, sql, scanVars, storeVars>>

WhereInList ==
  /\ pc = "new"
  /\ Len(vals) > 0
  /\ \E left \in ListLefts, base \in ListBases :
       /\ q' = Where(In(left, List(vals)), base)
       /\ hist' = <<Call1("Construct", <<>>), Call1("Where", <<In(left, List(vals))>>)>>
  /\ pc' = "opts"
  /\ UNCHANGED <<sql, vals, scanVars, storeVars>>

NextList ==
  \/ AddVal
  \/ WhereInList
  \/ DoBuild

SpecList == Init /\ [][NextList]_vars

----------------------------------------------------------------------------
(* The Row Scanner: Row, structFields, Scanner.getFields and Scanner.Scan  *)
(*                                                                         *)
(* A string that the scanner takes apart or compares (a struct tag, a      *)
(* field name, a column name) is a sequence of pieces: the separators ",", *)
(* ":", "." and the wildcard "*" are pieces of their own, and a piece that *)
(* is a word holds none of them.  The tag `user_id:id,users.*:*` is        *)
(* <<"user_id", ":", "id", ",", "users", ".", "*", ":", "*">>.  A text     *)
(* that is parsed as a number is a sequence of its characters.             *)
(*                                                                         *)
(* A Go value is a record with its reflect.Kind (kind) and its type (typ). *)
(* A pointer is nil or holds the address and the value it points to; a     *)
(* reflect.Value of a field is the path of field indexes that leads to it  *)
(* from the Model handed to Scan.                                          *)

Nil == [kind |-> "nil"]

(* The element of a set of one element.  A loop names the values it carries
   from one pass to the next as the elements of such sets, so that each is
   computed once. *)
The(S) == CHOOSE x \in S : TRUE

NilP == [nil |-> TRUE]

PtrTo(addr, elem) == [nil |-> FALSE, addr |-> addr, elem |-> elem]

Ptr(to, p) == [kind |-> "ptr", typ |-> "*" \o to, p |-> p]

IntOf(typ, n) == [kind |-> typ, typ |-> typ, n |-> n]

String(chars) == [kind |-> "string", typ |-> "string", s |-> chars]

Bytes(chars) == [kind |-> "slice", typ |-> "[]byte", s |-> chars]

Bool(b) == [kind |-> "bool", typ |-> "bool", b |-> b]

Float64(chars) == [kind |-> "float64", typ |-> "float64", f |-> chars]

Time(t) == [kind |-> "struct", typ |-> "time.Time", t |-> t]

(* A struct field: its name, its db tag ("" is <<>>) and its value. *)
StructField(name, tag, val) == [name |-> name, tag |-> tag, val |-> val]

Struct(typ, flds) == [kind |-> "struct", typ |-> typ, fields |-> flds]

(* A map: nil, or its pairs of key and value. *)
NilMap(typ) == [kind |-> "map", typ |-> typ, isnil |-> TRUE, m |-> {}]

Map(typ, m) == [kind |-> "map", typ |-> typ, isnil |-> FALSE, m |-> m]

(* The kinds reflect.Value.IsNil accepts, and IsNil of a value of one. *)
IsNilable(v) == v.kind \in {"ptr", "slice", "map"}

IsNil(v) ==
  IF v.kind = "ptr" THEN v.p.nil ELSE IF v.kind = "map" THEN v.isnil ELSE FALSE

Elem(v) == v.p.elem

(* reflect.Value.Field followed along a path, through the pointers. *)
RECURSIVE ValAt(_, _)
ValAt(v, path) ==
  IF path = <<>> THEN v
  ELSE IF v.kind = "ptr" THEN ValAt(Elem(v), path)
  ELSE ValAt(v.fields[Head(path)].val, Tail(path))

(* reflect.Value.Set on the field a path leads to. *)
RECURSIVE SetAt(_, _, _)
SetAt(v, path, x) ==
  IF path = <<>> THEN x
  ELSE IF v.kind = "ptr" THEN [v EXCEPT !.p.elem = SetAt(Elem(v), path, x)]
  ELSE [v EXCEPT !.fields[Head(path)].val = SetAt(@, Tail(path), x)]

(* errors.New and fmt.Errorf. *)
errorsNew(msg) == [type |-> "error", msg |-> msg]

StructFieldError(tag, struct, field, err) ==
  [type |-> "StructFieldError", Tag |-> tag, Struct |-> struct, Field |-> field,
   Err |-> err]

(* A run-time panic of the reflect package. *)
Panic(msg) == [type |-> "panic", msg |-> msg]

IsPanic(e) == e.type = "panic"

(* strings.Contains, strings.SplitN(s, sep, 2) and strings.Split. *)
Contains(s, sep) == \E i \in 1..Len(s) : s[i] = sep

Index(s, sep) == CHOOSE i \in 1..Len(s) : s[i] = sep /\ \A j \in 1..(i - 1) : s[j] # sep

SplitN2(s, sep) ==
  IF Contains(s, sep)
  THEN <<SubSeq(s, 1, Index(s, sep) - 1), SubSeq(s, Index(s, sep) + 1, Len(s))>>
  ELSE <<s>>

RECURSIVE Split(_, _)
Split(s, sep) ==
  IF Contains(s, sep)
  THEN <<SplitN2(s, sep)[1]>> \o Split(SplitN2(s, sep)[2], sep)
  ELSE <<s>>

(* The lower-case form of a word. *)
ToLower(w) ==
  CASE w = "ID"    -> "id"
    [] w = "Id"    -> "id"
    [] w = "Title" -> "title"
    [] w = "TITLE" -> "title"
    [] w = "Email" -> "email"
    [] w = "User"  -> "user"
    [] w = "Time"  -> "time"
    [] w = "Data"  -> "data"
    [] w = "Uint8" -> "uint8"
    [] w = "Uint16" -> "uint16"
    [] w = "I"     -> "i"
    [] w = "Count" -> "count"
    [] w = "EMAIL" -> "email"
    [] w = "Int16" -> "int16"
    [] w = "Int8"  -> "int8"
    [] w = "Bool"  -> "bool"
    [] w = "Float64" -> "float64"
    [] w = "Name"  -> "name"
    [] w = "Blob"  -> "blob"
    [] OTHER       -> w

(* The comparison a structField's fold function makes: equality of the two
   names ignoring case. *)
EqualFold(s, t) ==
  /\ Len(s) = Len(t)
  /\ \A i \in 1..Len(s) : ToLower(s[i]) = ToLower(t[i])

(* structFields: arr and tab. *)
NoFields == [arr |-> <<>>, tab |-> <<>>]

put(s, name, fld) ==
  IF name \in DOMAIN s.tab THEN s
  ELSE [arr |-> Append(s.arr, fld), tab |-> s.tab @@ (name :> Len(s.arr) + 1)]

(* put of every element of a sequence of <<name, fld>> pairs, in order. *)
RECURSIVE putAll(_, _)
putAll(s0, pairs0) ==
  The({IF pairs = <<>> THEN s
       ELSE putAll(put(s, Head(pairs)[1], Head(pairs)[2]), Tail(pairs))
       : s \in {s0}, pairs \in {pairs0}})

(* The first element of arr whose name the fold function matches. *)
foldIndex(s, name) ==
  IF \E i \in 1..Len(s.arr) : EqualFold(s.arr[i].name, name)
  THEN CHOOSE i \in 1..Len(s.arr) :
         /\ EqualFold(s.arr[i].name, name)
         /\ \A j \in 1..(i - 1) : ~EqualFold(s.arr[j].name, name)
  ELSE 0

(* structFields.get without the loop over arr: only the names put are
   found. *)
get_ExactOnly(s, name) ==
  IF name \in DOMAIN s.tab
  THEN [ok |-> TRUE, fld |-> s.arr[s.tab[name]], s |-> s]
  ELSE [ok |-> FALSE, fld |-> Nil, s |-> s]

(* structFields.get: what it returns and the structFields it leaves. *)
get(s, name) ==
  IF name \in DOMAIN s.tab
  THEN [ok |-> TRUE, fld |-> s.arr[s.tab[name]], s |-> s]
  ELSE IF foldIndex(s, name) # 0
  THEN [ok |-> TRUE, fld |-> s.arr[foldIndex(s, name)],
        s |-> put(s, name, s.arr[foldIndex(s, name)])]
  ELSE [ok |-> FALSE, fld |-> Nil, s |-> s]

(* A new structField for a field of the struct: its name and its value. *)
newField(name, path) == [name |-> name, val |-> path]

RECURSIVE getFields(_, _)
RECURSIVE fieldsLoop(_, _, _, _)
RECURSIVE tagLoop(_, _, _, _, _, _)

(* The hoist of `prefix.*` without the renaming. *)
hoistPrefixed_NoPrefix(fields, nested, prefix) ==
  putAll(fields, [k \in 1..Len(nested.arr) |-> <<nested.arr[k].name, nested.arr[k]>>])

(* The hoist of `prefix.*`: every element of nested.arr is renamed to
   prefix + "." + name and put under its new name. *)
hoistPrefixed(fields, nested, prefix) ==
  putAll(fields,
         [k \in 1..Len(nested.arr) |->
            <<prefix \o <<".">> \o nested.arr[k].name,
              [nested.arr[k] EXCEPT !.name = prefix \o <<".">> \o @]>>])

(* The hoist of `*:*`: every element of nested.arr is put under its name. *)
hoistAll(fields, nested) ==
  putAll(fields, [k \in 1..Len(nested.arr) |-> <<nested.arr[k].name, nested.arr[k]>>])

(* mapNested with an error for a target that no field of the nested struct
   matches. *)
mapNested_FailsUnresolved(sv, i, fields, col, target, nested) ==
  IF Contains(col, ".") /\ SplitN2(col, ".")[1] = <<>>
  THEN [err |-> StructFieldError(col, sv.typ, sv.fields[i].name,
                                 errorsNew("missing mapping prefix")),
        fields |-> fields]
  ELSE IF Contains(col, ".") /\ SplitN2(col, ".")[2] = <<"*">>
  THEN [err |-> None, fields |-> hoistPrefixed(fields, nested, SplitN2(col, ".")[1])]
  ELSE IF get(nested, target).ok
  THEN [err |-> None, fields |-> put(fields, col, get(nested, target).fld)]
  ELSE IF col = <<"*">> /\ target = <<"*">>
  THEN [err |-> None, fields |-> hoistAll(fields, nested)]
  ELSE [err |-> StructFieldError(col, sv.typ, sv.fields[i].name,
                                 errorsNew("unresolved mapping target")),
        fields |-> fields]

(* What a segment `col:target` of the tag of field i puts, when the field
   is not nil and its own structFields are nested: the structFields after
   it, or the error. *)
mapNested(sv, i, fields, col, target, nested) ==
  IF Contains(col, ".") /\ SplitN2(col, ".")[1] = <<>>
  THEN [err |-> StructFieldError(col, sv.typ, sv.fields[i].name,
                                 errorsNew("missing mapping prefix")),
        fields |-> fields]
  ELSE IF Contains(col, ".") /\ SplitN2(col, ".")[2] = <<"*">>
  THEN [err |-> None, fields |-> hoistPrefixed(fields, nested, SplitN2(col, ".")[1])]
  ELSE IF get(nested, target).ok
  THEN [err |-> None, fields |-> put(fields, col, get(nested, target).fld)]
  ELSE IF col = <<"*">> /\ target = <<"*">>
  THEN [err |-> None, fields |-> hoistAll(fields, nested)]
  ELSE [err |-> None, fields |-> fields]

(* nestedSegment without the test for a nil field. *)
nestedSegment_NoNilTest(sv, path, i, fields, col, target) ==
  LET sf     == sv.fields[i]
      nested == getFields(sf.val, Append(path, i))
  IN
  IF target = <<>>
  THEN [err |-> StructFieldError(col, sv.typ, sf.name,
                                 errorsNew("missing mapping target")),
        fields |-> fields]
  ELSE IF IsPanic(nested.err) THEN [err |-> nested.err, fields |-> fields]
  ELSE IF nested.err # None
  THEN [err |-> StructFieldError(<<>>, sv.typ, sf.name, nested.err), fields |-> fields]
  ELSE mapNested(sv, i, fields, col, target, nested.fields)

(* One segment `col:target` of the tag of field i: the structFields after
   it, or the error. *)
nestedSegment(sv, path, i, fields, col, target) ==
  LET sf     == sv.fields[i]
      nested == getFields(sf.val, Append(path, i))
  IN
  IF target = <<>>
  THEN [err |-> StructFieldError(col, sv.typ, sf.name,
                                 errorsNew("missing mapping target")),
        fields |-> fields]
  ELSE IF ~IsNilable(sf.val)
  THEN [err |-> Panic("reflect: call of reflect.Value.IsNil on " \o sf.val.kind
                      \o " Value"),
        fields |-> fields]
  ELSE IF IsNil(sf.val) THEN [err |-> None, fields |-> fields]
  ELSE IF IsPanic(nested.err) THEN [err |-> nested.err, fields |-> fields]
  ELSE IF nested.err # None
  THEN [err |-> StructFieldError(<<>>, sv.typ, sf.name, nested.err), fields |-> fields]
  ELSE mapNested(sv, i, fields, col, target, nested.fields)

(* The loop over the segments of the tag of field i, from segment k on, and
   then the rest of the loop over the fields. *)
tagLoop(sv, path, i, segs, k, fields0) ==
  The({IF k > Len(segs) THEN fieldsLoop(sv, path, i + 1, fields)
       ELSE IF Contains(segs[k], ":")
       THEN The({IF r.err # None THEN r
                 ELSE tagLoop(sv, path, i, segs, k + 1, r.fields)
                 : r \in {nestedSegment(sv, path, i, fields, SplitN2(segs[k], ":")[1],
                                        SplitN2(segs[k], ":")[2])}})
       ELSE tagLoop(sv, path, i, segs, k + 1,
                    put(fields, segs[k], newField(segs[k], Append(path, i))))
       : fields \in {fields0}})

(* The loop over the fields of the struct, from field i on. *)
fieldsLoop(sv, path, i, fields0) ==
  The({IF i > Len(sv.fields) THEN [err |-> None, fields |-> fields]
       ELSE
         LET sf == sv.fields[i] IN
         IF sf.tag # <<>>
         THEN IF sf.tag = <<"-">> THEN fieldsLoop(sv, path, i + 1, fields)
              ELSE tagLoop(sv, path, i, Split(sf.tag, ","), 1, fields)
         ELSE fieldsLoop(sv, path, i + 1,
                         put(fields, <<sf.name>>,
                             newField(<<sf.name>>, Append(path, i))))
       : fields \in {fields0}})

(* Scanner.getFields of the value a path leads to. *)
getFields(rv, path) ==
  IF ~IsNilable(rv)
  THEN [err |-> Panic("reflect: call of reflect.Value.IsNil on " \o rv.kind \o " Value"),
        fields |-> NoFields]
  ELSE IF IsNil(rv)
  THEN [err |-> errorsNew("target cannot be nil"), fields |-> NoFields]
  ELSE IF (IF rv.kind = "ptr" THEN Elem(rv) ELSE rv).kind # "struct"
  THEN [err |-> errorsNew("target must be struct or pointer to struct"),
        fields |-> NoFields]
  ELSE fieldsLoop(Elem(rv), path, 1, NoFields)

(* Texts and numbers: strconv                                              *)

Digit(c) == CHOOSE d \in 0..9 : ToString(d) = c

IsDigit(c) == \E d \in 0..9 : ToString(d) = c

(* The decimal digits of a number that is not negative. *)
RECURSIVE Digits(_)
Digits(n) == IF n < 10 THEN <<ToString(n)>> ELSE Digits(n \div 10) \o <<ToString(n % 10)>>

FormatInt(n) == IF n < 0 THEN <<"-">> \o Digits(0 - n) ELSE Digits(n)

FormatBool(b) == IF b THEN <<"t", "r", "u", "e">> ELSE <<"f", "a", "l", "s", "e">>

(* The number a sequence of digits writes. *)
RECURSIVE Number(_)
Number(s) == IF s = <<>> THEN 0 ELSE 10 * Number(SubSeq(s, 1, Len(s) - 1)) + Digit(s[Len(s)])

RECURSIVE Pow2(_)
Pow2(n) == IF n = 0 THEN 1 ELSE 2 * Pow2(n - 1)

(* un < 2^bits, for a number that a text of at most nine digits writes:
   it is below 2^30. *)
Below2(un, bits) == bits >= 30 \/ un < Pow2(bits)

(* strconv.ParseUint(s, 10, bitSize): no sign is accepted. *)
ParseUint(s, bitSize) ==
  IF s = <<>> \/ \E i \in 1..Len(s) : ~IsDigit(s[i])
  THEN [err |-> "ErrSyntax", n |-> 0]
  ELSE IF ~Below2(Number(s), bitSize)
  THEN [err |-> "ErrRange", n |-> 0]
  ELSE [err |-> "nil", n |-> Number(s)]

(* strconv.ParseInt(s, 10, bitSize): one leading "+" or "-" is accepted. *)
ParseInt(s, bitSize) ==
  IF s = <<>> THEN [err |-> "ErrSyntax", n |-> 0]
  ELSE
    LET neg  == s[1] = "-"
        rest == IF s[1] \in {"+", "-"} THEN Tail(s) ELSE s
        un   == ParseUint(rest, 64)
    IN
    IF un.err # "nil" THEN [err |-> un.err, n |-> 0]
    ELSE IF ~neg /\ ~Below2(un.n, bitSize - 1) THEN [err |-> "ErrRange", n |-> 0]
    ELSE IF neg /\ ~Below2(un.n - 1, bitSize - 1) THEN [err |-> "ErrRange", n |-> 0]
    ELSE [err |-> "nil", n |-> IF neg THEN 0 - un.n ELSE un.n]

(* strconv.ParseBool. *)
ParseBool(s) ==
  IF s \in {<<"1">>, <<"t">>, <<"T">>, <<"t", "r", "u", "e">>, <<"T", "R", "U", "E">>,
            <<"T", "r", "u", "e">>}
  THEN [err |-> "nil", b |-> TRUE]
  ELSE IF s \in {<<"0">>, <<"f">>, <<"F">>, <<"f", "a", "l", "s", "e">>,
                 <<"F", "A", "L", "S", "E">>, <<"F", "a", "l", "s", "e">>}
  THEN [err |-> "nil", b |-> FALSE]
  ELSE [err |-> "ErrSyntax", b |-> FALSE]

(* Whether a text is a decimal numeral: a sign or none, digits, and a point
   followed by digits or none. *)
IsNumeral(s) ==
  LET body == IF s # <<>> /\ s[1] \in {"+", "-"} THEN Tail(s) ELSE s
      int  == SplitN2(body, ".")[1]
      frac == IF Contains(body, ".") THEN SplitN2(body, ".")[2] ELSE <<"0">>
  IN /\ int # <<>> /\ frac # <<>>
     /\ \A i \in 1..Len(int) : IsDigit(int[i])
     /\ \A i \in 1..Len(frac) : IsDigit(frac[i])

(* strconv.ParseFloat of a numeral that a float of the bit size holds
   exactly; the float is written as the numeral without a "+". *)
ParseFloat(s, bitSize) ==
  IF IsNumeral(s)
  THEN [err |-> "nil", f |-> IF s[1] = "+" THEN Tail(s) ELSE s]
  ELSE [err |-> "ErrSyntax", f |-> <<>>]

IntKinds == {"int", "int8", "int16", "int32", "int64"}

UintKinds == {"uint", "uint8", "uint16", "uint32", "uint64"}

FloatKinds == {"float32", "float64"}

(* reflect.Type.Bits of the numeric kinds. *)
Bits(kind) ==
  CASE kind \in {"int8", "uint8"}   -> 8
    [] kind \in {"int16", "uint16"} -> 16
    [] kind \in {"int32", "uint32", "float32"} -> 32
    [] OTHER -> 64

(* fmt's %v of a time.Time begins with the date. *)
FormatTime(t) == <<"2", "0", "2", "6", "-", "0", "1", "-">> \o Digits(t)

(* Scanner.toString. *)
toString(src) ==
  CASE src.kind \in {"string", "slice"} -> src.s
    [] src.kind \in IntKinds \cup UintKinds -> FormatInt(src.n)
    [] src.kind \in FloatKinds -> src.f
    [] src.kind = "bool" -> FormatBool(src.b)
    [] OTHER -> FormatTime(src.t)

fmtErrorf(what, src, s, err) ==
  [type |-> "error", msg |-> "cannot parse " \o src.typ \o " as " \o what, text |-> s,
   err |-> err]

(* A ColumnScanError; Table is the table of the Model. *)
Table(m) ==
  CASE m.typ = "*Post" -> "posts"
    [] m.typ = "*User" -> "users"
    [] m.typ = "*Notification" -> "notifications"
    [] m.typ = "*Number" -> "numbers"
    [] m.typ = "*Pointer" -> "pointers"
    [] OTHER -> "models"

colScanError(m, col, fld, fv, val) ==
  [type |-> "ColumnScanError", Table |-> Table(m), Column |-> col, Value |-> val.kind,
   Type |-> fv.typ, Struct |-> Elem(m).typ, Field |-> fld.name]

(* The cursor: database/sql's Rows.Scan and its convertAssign              *)

(* The cursor's row: none before Next, or the values of the current row. *)
NoRow == [cur |-> FALSE, vals |-> <<>>]

CurRow(values) == [cur |-> TRUE, vals |-> values]

(* The error of sql.Rows.Scan before any value is stored: there is no
   current row, or the destinations are not one per column. *)
rowsScanCheck(r, ncols, dest) ==
  IF ~r.cur THEN errorsNew("sql: Scan called without calling Next")
  ELSE IF Len(dest) # ncols
  THEN errorsNew("sql: expected " \o ToString(ncols)
                 \o " destination arguments in Scan, not " \o ToString(Len(dest)))
  ELSE None

(* convertAssign into a *string or a *int64 destination that holds cur. *)
convertAssign(cur, src) ==
  IF src = Nil
  THEN [err |-> errorsNew("converting NULL to " \o cur.typ \o " is unsupported"),
        val |-> cur]
  ELSE IF cur.kind = "string" THEN [err |-> None, val |-> String(toString(src))]
  ELSE IF ParseInt(toString(src), 64).err # "nil"
  THEN [err |-> errorsNew("converting driver.Value type " \o src.typ \o " to a int64"),
        val |-> cur]
  ELSE [err |-> None, val |-> IntOf("int64", ParseInt(toString(src), 64).n)]

(* Row.Scan with the loop over the map in place of the loop over the
   columns: the destinations come in the order of the map's keys. *)
RowScanDest_MapOrder(columns, desttab) ==
  LET keys == CHOOSE ks \in [1..Cardinality(DOMAIN desttab) -> DOMAIN desttab] :
                \A a, b \in DOMAIN ks : a # b => ks[a] # ks[b]
      IsCol(k) == \E i \in 1..Len(columns) : columns[i] = k
      keep == SelectSeq(keys, IsCol)
  IN [i \in 1..Len(keep) |-> desttab[keep[i]]]

(* Row.Scan: the destinations of the columns that are keys of desttab, in
   the order of the columns. *)
RowScanDest(columns, desttab) ==
  LET InTab(c) == c \in DOMAIN desttab
      keep == SelectSeq(columns, InTab)
  IN [i \in 1..Len(keep) |-> desttab[keep[i]]]

(* The MODEL types that implement RowScanner. *)
RowScannerTypes == {"*Notification"}

ImplementsRowScanner(m) == m.kind = "ptr" /\ m.typ \in RowScannerTypes

(* A destination is a field of the Model or a local variable of its Scan. *)
FieldDest(path) == [dest |-> "field", path |-> path]

LocalDest(name) == [dest |-> "local", name |-> name]

(* The frame of Notification.Scan: the Model and the local data. *)
LoadDest(st, d) == IF d.dest = "field" THEN ValAt(st.m, d.path) ELSE st.data

StoreDest(st, d, v) ==
  IF d.dest = "field" THEN [st EXCEPT !.m = SetAt(st.m, d.path, v)]
  ELSE [st EXCEPT !.data = v]

(* Rows.Scan stores the values into the destinations one after the other
   and stops at the first that cannot be converted. *)
RECURSIVE storeAll(_, _, _, _)
storeAll(st0, r, dest, i) ==
  The({IF i > Len(dest) THEN [err |-> None, st |-> st]
       ELSE LET c == convertAssign(LoadDest(st, dest[i]), r.vals[i]) IN
            IF c.err # None THEN [err |-> c.err, st |-> st]
            ELSE storeAll(StoreDest(st, dest[i], c.val), r, dest, i + 1)
       : st \in {st0}})

(* json.Unmarshal of an object of at most one member into a map. *)
jsonUnmarshal(text) ==
  IF text = <<"{", "}">> THEN [err |-> None, m |-> {}]
  ELSE IF Len(text) = 5 /\ text[1] = "{" /\ text[3] = ":" /\ text[5] = "}"
  THEN [err |-> None, m |-> {<<text[2], text[4]>>}]
  ELSE [err |-> [type |-> "json.SyntaxError"], m |-> {}]

(* Notification.Scan: the Model's own Scan.  It hands Row.Scan a map with
   the keys id and data, and then decodes the data. *)
NotificationScan(m, columns, r) ==
  IF IsNil(m)
  THEN [err |-> Panic("invalid memory address or nil pointer dereference"),
        target |-> m, fields |-> None, handed |-> <<>>, rowcols |-> <<columns>>]
  ELSE
    The({IF rowsScanCheck(r, Len(columns), dest) # None
         THEN [err |-> rowsScanCheck(r, Len(columns), dest), target |-> m,
               fields |-> None, handed |-> <<dest>>, rowcols |-> <<columns>>]
         ELSE
           The({IF stored.err # None
                THEN [err |-> stored.err, target |-> stored.st.m, fields |-> None,
                      handed |-> <<dest>>, rowcols |-> <<columns>>]
                ELSE
                  The({IF json.err # None
                       THEN [err |-> json.err, target |-> stored.st.m,
                             fields |-> None, handed |-> <<dest>>,
                             rowcols |-> <<columns>>]
                       ELSE [err |-> None,
                             target |-> SetAt(stored.st.m, <<2>>, Map("Data", json.m)),
                             fields |-> None, handed |-> <<dest>>,
                             rowcols |-> <<columns>>]
                       : json \in {jsonUnmarshal(stored.st.data.s)}})
                : stored \in {storeAll([m |-> m, data |-> String(<<>>)], r, dest, 1)}})
         : dest \in {RowScanDest(columns,
                                 (<<"id">> :> FieldDest(<<1>>))
                                 @@ (<<"data">> :> LocalDest("data")))}})

(* Scanner.Scan                                                            *)

(* The field types whose pointer implements sql.Scanner. *)
SqlScannerTypes == {"sql.NullInt64"}

NullInt64(n, valid) ==
  [kind |-> "struct", typ |-> "sql.NullInt64", Int64 |-> n, Valid |-> valid]

(* sql.NullInt64.Scan of a value that is not nil, on a new NullInt64. *)
sqlScan(src) ==
  LET c == convertAssign(IntOf("int64", 0), src) IN
  [err |-> c.err, val |-> NullInt64(c.val.n, TRUE)]

(* The address of the holder that the scan of column i allocates. *)
NewAddr(i) == 100 + i

(* The pointer case with the test of the field left out: a new holder is
   allocated for every value. *)
setPointer_Always(fv, val, i) ==
  IF "*" \o val.typ # fv.typ
  THEN [err |-> Panic("reflect.Set: value of type *" \o val.typ
                      \o " is not assignable to type " \o fv.typ),
        val |-> fv]
  ELSE [err |-> None, val |-> [fv EXCEPT !.p = PtrTo(NewAddr(i), val)]]

(* case reflect.Pointer: a nil field is set to a new pointer to the value. *)
setPointer(fv, val, i) ==
  IF IsNil(fv)
  THEN IF "*" \o val.typ # fv.typ
       THEN [err |-> Panic("reflect.Set: value of type *" \o val.typ
                           \o " is not assignable to type " \o fv.typ),
             val |-> fv]
       ELSE [err |-> None, val |-> [fv EXCEPT !.p = PtrTo(NewAddr(i), val)]]
  ELSE [err |-> None, val |-> fv]

(* case reflect.Bool. *)
setBool(fv, src, val) ==
  IF val.kind = "bool" THEN [err |-> None, val |-> [fv EXCEPT !.b = val.b]]
  ELSE IF val.kind = "int64" THEN [err |-> None, val |-> [fv EXCEPT !.b = (val.n = 1)]]
  ELSE IF ParseBool(toString(src)).err # "nil"
  THEN [err |-> fmtErrorf("bool", src, toString(src), ParseBool(toString(src)).err),
        val |-> fv]
  ELSE [err |-> None, val |-> [fv EXCEPT !.b = ParseBool(toString(src)).b]]

(* The signed case parsed at 64 bits whatever the width of the field. *)
setInt_NoWidth(fv, src) ==
  IF ParseInt(toString(src), 64).err # "nil"
  THEN [err |-> fmtErrorf("int", src, toString(src), ParseInt(toString(src), 64).err),
        val |-> fv]
  ELSE [err |-> None, val |-> [fv EXCEPT !.n = ParseInt(toString(src), 64).n]]

(* case reflect.Int ... reflect.Int64. *)
setInt(fv, src) ==
  LET p == ParseInt(toString(src), Bits(fv.kind)) IN
  IF p.err # "nil"
  THEN [err |-> fmtErrorf("int", src, toString(src), p.err), val |-> fv]
  ELSE [err |-> None, val |-> [fv EXCEPT !.n = p.n]]

(* case reflect.Uint ... reflect.Uint64. *)
setUint(fv, src) ==
  LET p == ParseUint(toString(src), Bits(fv.kind)) IN
  IF p.err # "nil"
  THEN [err |-> fmtErrorf("uint", src, toString(src), p.err), val |-> fv]
  ELSE [err |-> None, val |-> [fv EXCEPT !.n = p.n]]

(* case reflect.Float32, reflect.Float64. *)
setFloat(fv, src) ==
  LET p == ParseFloat(toString(src), Bits(fv.kind)) IN
  IF p.err # "nil"
  THEN [err |-> fmtErrorf("float", src, toString(src), p.err), val |-> fv]
  ELSE [err |-> None, val |-> [fv EXCEPT !.f = p.f]]

(* default: the kinds must agree, and reflect's Set needs the types to. *)
setOther(m, col, fld, fv, val) ==
  IF fv.kind # val.kind THEN [err |-> colScanError(m, col, fld, fv, val), val |-> fv]
  ELSE IF fv.typ # val.typ
  THEN [err |-> Panic("reflect.Set: value of type " \o val.typ
                      \o " is not assignable to type " \o fv.typ),
        val |-> fv]
  ELSE [err |-> None, val |-> val]

(* The body of the loop over sc.cols for a column that a field was found
   for: the error, and the value the field holds after it. *)
scanValue(m, col, fld, fv, src, i) ==
  IF src = Nil THEN [err |-> None, val |-> fv]
  ELSE IF fv.typ \in SqlScannerTypes /\ sqlScan(src).err # None
  THEN [err |-> sqlScan(src).err, val |-> fv]
  ELSE
    LET val == IF fv.typ \in SqlScannerTypes THEN sqlScan(src).val ELSE src IN
    CASE fv.kind = "ptr"        -> setPointer(fv, val, i)
      [] fv.kind = "bool"       -> setBool(fv, src, val)
      [] fv.kind \in IntKinds   -> setInt(fv, src)
      [] fv.kind \in UintKinds  -> setUint(fv, src)
      [] fv.kind \in FloatKinds -> setFloat(fv, src)
      [] OTHER                  -> setOther(m, col, fld, fv, val)

(* The loop over sc.cols going on to the next column after a value that
   could not be converted. *)
RECURSIVE scanColumns_SkipsFailed(_, _, _, _, _)
scanColumns_SkipsFailed(m0, columns, r, fields0, i) ==
  The({IF i > Len(columns) THEN [err |-> None, target |-> m, fields |-> fields]
       ELSE
         The({IF ~g.ok THEN scanColumns_SkipsFailed(m, columns, r, fields, i + 1)
              ELSE
                LET s == scanValue(m, columns[i], g.fld, ValAt(m, g.fld.val),
                                   r.vals[i], i)
                IN
                IF s.err # None
                THEN scanColumns_SkipsFailed(m, columns, r, g.s, i + 1)
                ELSE scanColumns_SkipsFailed(SetAt(m, g.fld.val, s.val), columns, r,
                                             g.s, i + 1)
              : g \in {get(fields, columns[i])}})
       : m \in {m0}, fields \in {fields0}})

(* The loop over sc.cols from column i on: m is the Model as it is now. *)
RECURSIVE scanColumns(_, _, _, _, _)
scanColumns(m0, columns, r, fields0, i) ==
  The({IF i > Len(columns) THEN [err |-> None, target |-> m, fields |-> fields]
       ELSE
         The({IF ~g.ok THEN scanColumns(m, columns, r, fields, i + 1)
              ELSE
                LET s == scanValue(m, columns[i], g.fld, ValAt(m, g.fld.val),
                                   r.vals[i], i)
                IN
                IF s.err # None THEN [err |-> s.err, target |-> m, fields |-> g.s]
                ELSE scanColumns(SetAt(m, g.fld.val, s.val), columns, r, g.s, i + 1)
              : g \in {get(fields, columns[i])}})
       : m \in {m0}, fields \in {fields0}})

(* Scan of a Model that does not implement RowScanner. *)
reflectScan(m, columns, r) ==
  IF m.kind # "ptr"
  THEN [err |-> errorsNew("model must be a pointer"), target |-> m, fields |-> None,
        handed |-> <<>>, rowcols |-> <<>>]
  ELSE
    The({IF f.err # None
         THEN [err |-> f.err, target |-> m, fields |-> None, handed |-> <<>>,
               rowcols |-> <<>>]
         ELSE IF rowsScanCheck(r, Len(columns), dest) # None
         THEN [err |-> rowsScanCheck(r, Len(columns), dest), target |-> m,
               fields |-> f.fields, handed |-> <<dest>>, rowcols |-> <<>>]
         ELSE The({[err |-> done.err, target |-> done.target, fields |-> done.fields,
                    handed |-> <<dest>>, rowcols |-> <<>>]
                   : done \in {scanColumns(m, columns, r, f.fields, 1)}})
         : f \in {getFields(m, <<>>)},
           dest \in {[i \in 1..Len(columns) |-> LocalDest("val" \o ToString(i))]}})

(* Scan with the test for RowScanner left out. *)
Scan_NoRowScanner(m, columns, r) == reflectScan(m, columns, r)

(* Scanner.Scan(m) on a cursor with the columns and the current row r: the
   error, the Model after it, the structFields it resolved with, the
   destinations it handed to the cursor, and the Columns of the Row it
   handed to the Model's own Scan. *)
Scan(m, columns, r) ==
  IF ImplementsRowScanner(m) THEN NotificationScan(m, columns, r)
  ELSE reflectScan(m, columns, r)

(* The Models and the cursors that Scan is applied to                      *)


Name(w) == <<w>>

Dotted(a, b) == <<a, ".", b>>

(* User of database_test.go. *)
User(id, email) ==
  Struct("User", <<StructField("ID", <<>>, IntOf("int64", id)),
                   StructField("Email", <<>>, String(email))>>)

UserPtr(addr, id) == Ptr("User", PtrTo(addr, User(id, <<"old">>)))

NilUser == Ptr("User", NilP)

(* Post of database_test.go with the tag of its User field. *)
Post(tag, user) ==
  Struct("Post", <<StructField("ID", <<>>, IntOf("int64", 0)),
                   StructField("User", tag, user),
                   StructField("Title", <<>>, String(<<"draft">>))>>)

(* Post with the User field declared before the ID field. *)
PostUserFirst(tag, user) ==
  Struct("Post", <<StructField("User", tag, user),
                   StructField("ID", <<>>, IntOf("int64", 0)),
                   StructField("Title", <<>>, String(<<"draft">>))>>)

(* Moderator of the readme: the embedded *User. *)
Moderator(tag, user) == Struct("Moderator", <<StructField("User", tag, user)>>)

(* A record with its own ID and an embedded *User: both have a field ID. *)
Admin(tag, user) ==
  Struct("Admin", <<StructField("ID", <<>>, IntOf("int64", 0)),
                    StructField("User", tag, user),
                    StructField("Name", Name("-"), String(<<"root">>))>>)

(* Number of scanner_test.go, with a signed field of 8 bits. *)
Number0 ==
  Struct("Number", <<StructField("I", <<>>, [kind |-> "int", typ |-> "I", n |-> 5]),
                     StructField("Int8", <<>>, IntOf("int8", 5)),
                     StructField("Uint8", <<>>, IntOf("uint8", 5)),
                     StructField("Uint16", <<>>, IntOf("uint16", 5)),
                     StructField("Float64", <<>>, Float64(<<"0">>)),
                     StructField("Bool", <<>>, Bool(FALSE)),
                     StructField("Count", Name("n"), NullInt64(0, FALSE))>>)

(* Pointer of scanner_test.go. *)
Pointer(p) == Struct("Pointer", <<StructField("Time", <<>>, Ptr("time.Time", p))>>)

(* Notification of scanner_test.go: it implements RowScanner. *)
Notification0 ==
  Struct("Notification", <<StructField("ID", <<>>, IntOf("int64", 0)),
                           StructField("Data", <<>>, NilMap("Data"))>>)

(* A pointer to a struct: a Model as the stores make them. *)
ModelOf(sv) == Ptr(sv.typ, PtrTo(1, sv))

TagRelations == <<"user_id", ":", "id", ",", "users", ".", "*", ":", "*">>

TagReadme == <<"user_id", ":", "id", ",", "users", ".", "*">>

TagColumn == <<"user_id", ":", "id">>

TagUnknown == <<"user_id", ":", "uid">>

TagEmbed == <<"*", ":", "*">>

TagPrefix == <<"users", ".", "*", ":", "*">>

(* `user_id:`, a segment without its target, and `.id:id`, one without its
   prefix. *)
TagNoTarget == <<"user_id", ":">>

TagNoPrefix == <<".", "id", ":", "id">>

Models ==
  {ModelOf(User(9, <<"old">>)),
   ModelOf(Post(<<>>, NilUser)),
   ModelOf(Post(TagRelations, UserPtr(2, 0))),
   ModelOf(Post(TagRelations, NilUser)),
   ModelOf(Post(TagReadme, UserPtr(2, 0))),
   ModelOf(Post(TagColumn, UserPtr(2, 0))),
   ModelOf(Post(TagColumn, NilUser)),
   ModelOf(PostUserFirst(TagColumn, UserPtr(2, 0))),
   ModelOf(Post(TagUnknown, UserPtr(2, 0))),
   ModelOf(Post(TagPrefix, UserPtr(2, 0))),
   ModelOf(Post(TagPrefix, NilUser)),
   ModelOf(Moderator(TagEmbed, UserPtr(2, 0))),
   ModelOf(Moderator(TagEmbed, NilUser)),
   ModelOf(Admin(TagEmbed, UserPtr(2, 0))),
   ModelOf(Admin(TagEmbed, NilUser)),
   ModelOf(Number0),
   ModelOf(Pointer(NilP)),
   ModelOf(Pointer(PtrTo(3, Time(1)))),
   ModelOf(Notification0),
   ModelOf(Post(TagNoTarget, UserPtr(2, 0))),
   ModelOf(Post(TagNoTarget, NilUser)),
   ModelOf(Post(TagNoPrefix, UserPtr(2, 0))),
   ModelOf(Post(TagNoPrefix, NilUser)),
   User(9, <<"old">>),
   NilUser,
   Ptr("I", PtrTo(1, [kind |-> "int", typ |-> "I", n |-> 5]))}

Int64(n) == IntOf("int64", n)

Text(w) == String(<<w>>)

(* The values a driver hands for a column that a number is scanned from. *)
NumberValues ==
  {Int64(12), Int64(127), Int64(128), Int64(0 - 128), Int64(0 - 129), Int64(255),
   Int64(256), Int64(0 - 1), Int64(40000), Int64(70000),
   String(<<"1", "2">>), String(<<"3", "0", "0">>), String(<<"+", "5">>),
   String(<<"-", "0">>), String(<<"a", "b", "c">>), String(<<>>),
   String(<<"1", "2", "x">>), Bytes(<<"4", "2">>),
   Float64(<<"2", ".", "5">>), Float64(<<"7">>), Bool(TRUE), Time(4), Nil}

(* A cursor: the column names and the rows it can stand on. *)
Cursor(columns, rows) == [cols |-> columns, rows |-> rows]

Cursors ==
  {Cursor(<<Name("id"), Name("email")>>,
          {<<Int64(7), Text("a@x")>>, <<Nil, Text("a@x")>>, <<Int64(7), Nil>>,
           <<Text("a@x"), Int64(7)>>}),
   Cursor(<<Name("id"), Name("title")>>,
          {<<Int64(1), Text("hello")>>, <<Nil, Nil>>}),
   Cursor(<<Name("ID"), Name("TITLE"), Name("extra")>>,
          {<<Int64(1), Text("hello"), Int64(3)>>}),
   Cursor(<<Name("id"), Name("user_id"), Name("title"),
            Dotted("users", "id"), Dotted("users", "email")>>,
          {<<Int64(1), Int64(2), Text("hello"), Int64(3), Text("a@x")>>}),
   Cursor(<<Name("user_id"), Name("id")>>, {<<Int64(2), Int64(1)>>}),
   Cursor(<<Dotted("users", "id"), Name("id")>>, {<<Int64(3), Int64(1)>>}),
   Cursor(<<Name("id"), Name("id")>>, {<<Int64(1), Int64(3)>>}),
   Cursor(<<Name("int8")>>,   {<<v>> : v \in NumberValues}),
   Cursor(<<Name("uint8")>>,  {<<v>> : v \in NumberValues}),
   Cursor(<<Name("uint16")>>, {<<v>> : v \in NumberValues}),
   Cursor(<<Name("i")>>,      {<<v>> : v \in NumberValues}),
   Cursor(<<Name("n"), Name("bool"), Name("float64")>>,
          {<<v, w, v>> : v \in {Int64(1), Text("x"), Float64(<<"2", ".", "5">>)},
                         w \in {Bool(TRUE), Int64(1), Int64(2), String(<<"t">>),
                                Text("yes")}}),
   Cursor(<<Name("time")>>, {<<Time(4)>>, <<Nil>>, <<Text("now")>>}),
   Cursor(<<Name("id"), Name("data")>>,
          {<<Int64(10), String(<<"{", "field", ":", "value", "}">>)>>,
           <<String(<<"1", "0">>), String(<<"{", "}">>)>>,
           <<Int64(10), Text("oops")>>,
           <<Text("abc"), String(<<"{", "}">>)>>,
           <<Int64(10), Nil>>}),
   Cursor(<<Name("data"), Name("id")>>,
          {<<String(<<"{", "}">>), Int64(10)>>}),
   Cursor(<<Name("id"), Name("title"), Name("data")>>,
          {<<Int64(10), Text("hello"), String(<<"{", "}">>)>>}),
   Cursor(<<Name("id")>>, {<<Int64(10)>>})}

(* The state machine of the scanner: NewScanner takes the columns of a
   cursor, Next moves the cursor onto a row, Scan scans the current row
   into a Model. *)
NewScanner ==
  /\ spc = "idle"
  /\ \E c \in Cursors : cols' = c.cols
  /\ spc' = "open"
  /\ row' = NoRow
  /\ UNCHANGED <<model, before, serr, ftab, handed, rowarg, queryVars, storeVars>>

RowsNext ==
  /\ spc = "open"
  /\ ~row.cur
  /\ \E c \in Cursors : c.cols = cols /\ \E r \in c.rows : row' = CurRow(r)
  /\ UNCHANGED <<spc, cols, model, before, serr, ftab, handed, rowarg, queryVars, storeVars>>

ScannerScan ==
  /\ spc = "open"
  /\ \E m \in Models : \E res \in {Scan(m, cols, row)} :
       /\ before' = m
       /\ model' = res.target
       /\ serr' = res.err
       /\ ftab' = res.fields
       /\ handed' = res.handed
       /\ rowarg' = res.rowcols
       /\ spc' = IF IsPanic(res.err) THEN "panicked" ELSE "done"
  /\ UNCHANGED <<cols, row, queryVars, storeVars>>

NextScan ==
  \/ NewScanner
  \/ RowsNext
  \/ ScannerScan

SpecScan == Init /\ [][NextScan]_vars

----------------------------------------------------------------------------
(* The Store: models, parameters and the statements of the operations *)

paramCreate == "create"

paramUpdate == "update"

(* paramMode.has: a mode is the set of its bits. *)
has(mode, mask) == mask \subseteq mode

MutableParam(v) == [mode |-> {paramCreate, paramUpdate}, value |-> v]

CreateOnlyParam(v) == [mode |-> {paramCreate}, value |-> v]

UpdateOnlyParam(v) == [mode |-> {paramUpdate}, value |-> v]

(* The model of the Store's test, with the fields of three parameters. *)
M(id, str, nullTime) == [ID |-> id, Str |-> str, NullTime |-> nullTime]

MTable == "models"

MPrimaryKey(m) == [Columns |-> <<"id">>, Values |-> <<Val(m.ID)>>]

(* M.Params as the map's keys and the Param of a key. *)
ParamNames == {"id", "str", "null_time"}

Params(m, name) ==
  CASE name = "id"        -> CreateOnlyParam(Val(m.ID))
    [] name = "str"       -> MutableParam(Val(m.Str))
    [] name = "null_time" -> UpdateOnlyParam(Val(m.NullTime))

(* The orders a range over a map with the keys S may take. *)
Orders(S) ==
  {o \in [1..Cardinality(S) -> S] : \A i, j \in DOMAIN o : i # j => o[i] # o[j]}

(* PrimaryKey.Where: one WhereEq for each column of the key. *)
RECURSIVE PrimaryKeyWhere(_, _, _)
PrimaryKeyWhere(pk, i, query) ==
  IF i > Len(pk.Columns) THEN query
  ELSE PrimaryKeyWhere(pk, i + 1, WhereEq(pk.Columns[i], Arg(pk.Values[i]), query))

(* The copy Values takes of the values it is handed, with held what the
   caller's slice holds when the option is applied. *)
tmp_Shared(values, held) == held

tmp(values, held) == [i \in 1..Len(values) |-> values[i]]

(* The result of an operation that hands the built Query to the exec
   function: the Query and the statements executed so far with it added. *)
Executed(log, query) ==
  [q |-> query,
   exec |-> Append(log, [query |-> Str(Build(query)), args |-> Args(query)])]

(* The result of an operation that returns without a statement. *)
NotExecuted(log) == [q |-> None, exec |-> log]

(* The values of the columns cols of the model m. *)
ColumnValues(m, columns) ==
  [k \in 1..Len(columns) |-> Params(m, columns[k]).value]

(* The Values options of doCreate applied in order: the option of model i
   was handed the slice that holds the last model's values by then. *)
RECURSIVE applyValues(_, _, _, _)
applyValues(mm, columns, i, query) ==
  IF i > Len(mm) THEN query
  ELSE applyValues(mm, columns, i + 1,
         Values(tmp(ColumnValues(mm[i], columns),
                    ColumnValues(mm[Len(mm)], columns)), query))

(* doCreate, with order the order the range over the parameters takes. *)
doCreate(log, order, mm) ==
  IF Len(mm) = 0 THEN NotExecuted(log)
  ELSE LET columns == SelectSeq(order,
                        LAMBDA name : has(Params(mm[1], name).mode, {paramCreate}))
       IN Executed(log, applyValues(mm, columns, 1, Insert(MTable, Columns(columns))))

(* The Set options of doUpdate and doUpdateMany applied in order. *)
RECURSIVE applySets(_, _, _)
applySets(sets, i, query) ==
  IF i > Len(sets) THEN query
  ELSE applySets(sets, i + 1, Set(sets[i][1], Arg(sets[i][2]), query))

(* doUpdate without the test of the parameter's mode. *)
doUpdate_AnyMode(log, order, m) ==
  LET sets == [k \in 1..Len(order) |-> <<order[k], Params(m, order[k]).value>>]
  IN Executed(log, PrimaryKeyWhere(MPrimaryKey(m), 1,
                              applySets(sets, 1, Update(MTable))))

(* doUpdate, with order the order the range over the parameters takes. *)
doUpdate(log, order, m) ==
  LET names == SelectSeq(order,
                 LAMBDA name : has(Params(m, name).mode, {paramUpdate}))
      sets  == [k \in 1..Len(names) |-> <<names[k], Params(m, names[k]).value>>]
  IN Executed(log, PrimaryKeyWhere(MPrimaryKey(m), 1,
                              applySets(sets, 1, Update(MTable))))

(* doUpdateMany, with fields the pairs of the map in the order the range
   takes and where the condition of the option handed after them. *)
doUpdateMany(log, fields, cond) ==
  LET sets == SelectSeq(fields,
                LAMBDA f : /\ f[1] \in ParamNames
                           /\ has(Params(M(0, "", ""), f[1]).mode, {paramUpdate}))
  IN Executed(log, Where(cond, applySets(sets, 1, Update(MTable))))

(* The value doDelete lists for one model. *)
deleteValue(pk) ==
  IF Len(pk.Values) > 1 THEN List(pk.Values) ELSE pk.Values[1]

(* doDelete without the return for an empty list of models. *)
doDelete_AlwaysExecutes(log, mm) ==
  Executed(log, WhereIn("(id)",
                   List([k \in 1..Len(mm) |-> deleteValue(MPrimaryKey(mm[k]))]),
                   Delete(MTable)))

doDelete(log, mm) ==
  IF Len(mm) = 0 THEN NotExecuted(log)
  ELSE LET pk == MPrimaryKey(mm[1])
       IN Executed(log, WhereIn("(" \o Str(JoinT([k \in 1..Len(pk.Columns) |->
                                                 Txt(pk.Columns[k])], ", ")) \o ")",
                           List([k \in 1..Len(mm) |->
                                   deleteValue(MPrimaryKey(mm[k]))]),
                           Delete(MTable)))

(* The most statements the Store executes. *)
MaxExec == 1

(* The most models handed to one call of the Store. *)
MaxModels == 2

StoreModels == {M(1, "a", "t1"), M(2, "b", "t2")}

ModelLists ==
  UNION {[1..n -> StoreModels] : n \in 0..MaxModels}

(* The maps handed to UpdateMany, as the pairs a range over the map gives. *)
FieldMaps ==
  {fs \in UNION {[1..n -> {<<"id", Val(10)>>, <<"null_time", Val("now")>>,
                           <<"str", Val("s")>>, <<"non_existent", Val(12345)>>}]
                   : n \in 0..2} :
     \A i, j \in DOMAIN fs : i # j => fs[i][1] # fs[j][1]}

(* The error the exec function returns. *)
ExecErrors == {None, [type |-> "error", msg |-> "exec"]}

(* One call of the Store: op with the result res of its operation and the
   error err of the exec function. Once MaxExec statements are executed
   only the calls with an empty list of models are made. *)
Called(op, mm, fields, order, res, err) ==
  /\ Len(execd) < MaxExec \/ (op \in {"Create", "Delete"} /\ mm = <<>>)
  /\ execd' = res.exec
  /\ call' = StoreCall(op, mm, fields, order)
  /\ stq' = res.q
  /\ ret' = IF res.exec = execd THEN None ELSE err
  /\ UNCHANGED <<queryVars, scanVars>>

StoreCreate ==
  \E mm \in ModelLists, order \in Orders(ParamNames), err \in ExecErrors :
    Called("Create", mm, <<>>, order, doCreate(execd, order, mm), err)

StoreUpdate ==
  \E m \in StoreModels, order \in Orders(ParamNames), err \in ExecErrors :
    Called("Update", <<m>>, <<>>, order, doUpdate(execd, order, m), err)

StoreUpdateMany ==
  \E fields \in FieldMaps, err \in ExecErrors :
    Called("UpdateMany", <<>>, fields, <<>>,
           doUpdateMany(execd, fields, In(Ident("id"), List(<<Val(1), Val(2)>>))), err)

StoreDelete ==
  \E mm \in ModelLists, err \in ExecErrors :
    Called("Delete", mm, <<>>, <<>>, doDelete(execd, mm), err)

NextStore ==
  \/ StoreCreate
  \/ StoreUpdate
  \/ StoreUpdateMany
  \/ StoreDelete

SpecStore == Init /\ [][NextStore]_vars

----------------------------------------------------------------------------
(* What the properties are stated with *)

Last(s) == s[Len(s)]

IsPrefix(s, t) == Len(s) <= Len(t) /\ SubSeq(t, 1, Len(s)) = s

(* A positional token "$k". *)
IsSlot(tok) == \E k \in 1..MaxSlot : tok.s = "$" \o ToString(k)

IsMarker(tok) == tok.s = "?"

Slots(text) == SelectSeq(text, IsSlot)

(* The values bound at the "?" markers of a text, left to right. *)
MarkerVals(text) ==
  LET m == SelectSeq(text, IsMarker) IN [i \in 1..Len(m) |-> m[i].v]

RECURSIVE JoinStr(_, _)
JoinStr(strs, sep) ==
  IF Len(strs) = 0 THEN ""
  ELSE IF Len(strs) = 1 THEN strs[1]
  ELSE strs[1] \o sep \o JoinStr(Tail(strs), sep)

(* The Arg leaves and plain bound values contained in a value handed to a
   constructor or an option, left to right. *)
RECURSIVE Leaves(_)
RECURSIVE LeavesSeq(_)
LeavesSeq(xs) == IF xs = <<>> THEN <<>> ELSE Leaves(Head(xs)) \o LeavesSeq(Tail(xs))

ClauseLeaves(cl) ==
  CASE cl.kind \in {_whereClause, _joinClause} -> Leaves(cl.expr)
    [] cl.kind = _valuesClause -> LeavesSeq(cl.args)
    [] cl.kind = _unionClause  -> Leaves(cl.q)
    [] cl.kind = _setClause    -> MarkerVals(cl.expr.val)
    [] OTHER -> <<>>

Leaves(x) ==
  CASE x.type = "val"   -> <<x>>
    [] x.type = "arg"   -> <<x.val>>
    [] x.type = "ident" -> <<>>
    [] x.type = "lit"   -> <<>>
    [] x.type = "list"  -> LeavesSeq(x.args)
    [] x.type = "call"  -> LeavesSeq(x.args)
    [] x.type = "andor" -> LeavesSeq(x.conds)
    [] x.type = "exprs" -> LeavesSeq(x.es)
    [] x.type = "op"    -> Leaves(x.left) \o Leaves(x.right)
    [] x.type = "as"    -> Leaves(x.in)
    [] x.type = "query" ->
         LeavesSeq(x.exprs)
         \o Flat([i \in 1..Len(x.clauses) |-> ClauseLeaves(x.clauses[i])])

(* The leaves handed by the calls so far; a Set on a Query that is not an
   UPDATE hands nothing on. *)
HandedLeaves ==
  Flat([i \in 1..Len(hist) |->
          IF hist[i].name = "Set" /\ q.stmt # updateStmt THEN <<>>
          ELSE LeavesSeq(hist[i].e)])

(* An option has just been applied in this step. *)
OptionStep == pc = "opts" /\ pc' = "opts" /\ hist' # hist

----------------------------------------------------------------------------
(* Properties *)

(* C1: in the text Build returns, the number of positional tokens equals
   len(Args()), and the k-th token from the left is $k and stands where the
   k-th element of Args() is bound. *)
C1_SlotsAreArgs ==
  pc = "built" =>
    LET slots == Slots(sql) IN
      /\ Len(slots) = Len(Args(q))
      /\ \A k \in 1..Len(slots) :
           slots[k].s = "$" \o ToString(k) /\ slots[k].v = Args(q)[k]

(* C2: the text Build returns holds no "?" marker, and its positional tokens
   from the left are exactly $1, $2, ..., $n. *)
C2_SlotsConsecutive ==
  pc = "built" =>
    /\ \A i \in 1..Len(sql) : ~ IsMarker(sql[i])
    /\ \A k \in 1..Len(Slots(sql)) : Slots(sql)[k].s = "$" \o ToString(k)

(* C3: len(Args()) is the number of Arg leaves in the expressions handed to
   the constructor and to every applied option. *)
C3_ArgsCountLeaves ==
  pc \in {"opts", "built"} => Len(Args(q)) = Len(HandedLeaves)

(* C4: an option only appends to the accumulator: Args() before it is a
   prefix of Args() after it, and what Where, OrWhere, Values and Set (on an
   UPDATE) append is their expression's arguments in order; Union starts
   from the arguments of its queries in order. *)
C4_OptionsOnlyAppend ==
  [][/\ OptionStep =>
          /\ IsPrefix(Args(q), Args(q'))
          /\ Last(hist').name \in {"Where", "OrWhere"} =>
               Args(q') = Args(q) \o ExprArgs(Last(hist').e[1])
          /\ Last(hist').name = "Values" =>
               Args(q') = Args(q) \o Last(hist').e
          /\ (Last(hist').name = "Set" /\ q.stmt = updateStmt) =>
               Args(q') = Args(q) \o ExprArgs(Last(hist').e[1])
     /\ (pc = "new" /\ pc' = "opts" /\ hist'[1].name = "Union") =>
          Args(q') = ArgsOfSeq(hist'[1].e)
    ]_vars

(* Two options that both carry arguments have been applied, and Args() is
   the first one's arguments followed by the second one's. *)
C4_Witness ==
  /\ pc = "opts"
  /\ Len(hist) = 3
  /\ hist[2].name = "OrWhere"
  /\ hist[3].name = "Where"
  /\ ExprArgs(hist[2].e[1]) = <<Val("%foo%"), Val("9")>>
  /\ ExprArgs(hist[3].e[1]) = <<Val("1")>>
  /\ Args(q) = <<Val("%foo%"), Val("9"), Val("1")>>

(* C6: Set on a Query that is not an UPDATE leaves the Query as it was; on
   an UPDATE it appends one SET clause and the expression's arguments. *)
C6_SetOnlyOnUpdate ==
  [][(OptionStep /\ Last(hist').name = "Set") =>
       IF q.stmt # updateStmt
       THEN q' = q
       ELSE /\ Len(q'.clauses) = Len(q.clauses) + 1
            /\ SubSeq(q'.clauses, 1, Len(q.clauses)) = q.clauses
            /\ Last(q'.clauses).kind = _setClause
            /\ Args(q') = Args(q) \o ExprArgs(Last(hist').e[1])
            /\ <<q'.stmt, q'.table, q'.exprs>> = <<q.stmt, q.table, q.exprs>>
    ]_vars

(* Set with an argument has been applied to a SELECT that already had a
   clause and an argument, and these are all the Query holds. *)
C6_Witness ==
  /\ pc = "opts"
  /\ Len(hist) = 3
  /\ q.stmt = selectStmt
  /\ hist[2].name = "Where"
  /\ hist[3] = Call1("Set", <<Arg(Val("val"))>>)
  /\ Len(q.clauses) = 1
  /\ Args(q) = <<Val("1")>>

(* The conditions of a run of WHERE clauses from clause i on, as the rule
   of C5 writes them: each clause after the first follows its own token, and
   a token that differs from the token of the clause before it, when that
   clause is not the first, closes the group and opens a new one. *)
RECURSIVE RunText(_, _)
RunText(cls, i) ==
  IF i > Len(cls) THEN ""
  ELSE (IF i = 1 THEN ""
        ELSE IF i > 2 /\ cls[i].conj # cls[i - 1].conj
             THEN ") " \o cls[i].conj \o " ("
             ELSE " " \o cls[i].conj \o " ")
       \o Str(ExprBuild(cls[i].expr))
       \o RunText(cls, i + 1)

AllWhere(cls) == \A i \in 1..Len(cls) : cls[i].kind = _whereClause

Names(h) == [i \in 1..Len(h) |-> h[i].name]

(* C5: inside a run of consecutive WHERE clauses every clause after the
   first follows its own AND/OR token; where the token of the next clause
   differs from the token of the current clause, and the current clause is
   not the first of the run, the group is closed and a new one opened. *)
C5_WhereGrouping ==
  /\ \A i \in 1..(Len(q.clauses) - 1) :
       (q.clauses[i].kind = _whereClause /\ q.clauses[i + 1].kind = _whereClause) =>
         LET first   == i = 1 \/ q.clauses[i - 1].kind # _whereClause
             tok     == q.clauses[i + 1].conj
             between == Str(clauseClose(q, i) \o clauseOpen(q, i + 1))
         IN between = IF ~ first /\ tok # q.clauses[i].conj
                      THEN ") " \o tok \o " ("
                      ELSE " " \o tok \o " "
  /\ (pc = "built" /\ Len(q.clauses) > 0 /\ AllWhere(q.clauses)) =>
       Str(sql) = "SELECT * WHERE (" \o RunText(q.clauses, 1) \o ")"
  /\ (pc = "built" /\ Names(hist) = <<"Select", "Where", "OrWhere", "Where">>
        /\ [i \in 1..3 |-> hist[i + 1].e[1]]
             = <<Lit(Txt("a")), Lit(Txt("b")), Lit(Txt("c"))>>) =>
       Str(sql) = "SELECT * WHERE (a OR b) AND (c)"
  /\ (pc = "built" /\ Names(hist) = <<"Select", "Where", "Where">>
        /\ [i \in 1..2 |-> hist[i + 1].e[1]] = <<Lit(Txt("a")), Lit(Txt("b"))>>) =>
       Str(sql) = "SELECT * WHERE (a AND b)"

(* Where a, OrWhere b, Where c, Where a has been built: the token changes
   twice and then stays. *)
C5_Witness ==
  /\ pc = "built"
  /\ Names(hist) = <<"Select", "From", "Where", "OrWhere", "Where">>
  /\ Str(sql) = "SELECT * FROM posts WHERE (a OR b) AND (c)"

HasQueryOperand(e) ==
  e.type = "op" /\ (e.left.type = "query" \/ e.right.type = "query")

(* The text of one operand of a comparison as C7 states it. *)
OperandStr(x) ==
  IF x.type = "query" THEN "(" \o Str(buildInitial(x)) \o ")"
  ELSE Str(ExprBuild(x))

(* C7: a Query that is an operand of a comparison is written as its own
   unnumbered text in parentheses, its arguments stand in the parent's
   Args() where the operand stands in the text, and the one numbering at the
   top numbers outer and inner placeholders in one sequence. *)
C7_SubqueryOperand ==
  /\ \A i \in 1..Len(q.clauses) :
       LET cl == q.clauses[i] IN
       (cl.kind = _whereClause /\ HasQueryOperand(cl.expr)) =>
         LET text == clauseBuild(cl) IN
           /\ Str(text) = OperandStr(cl.expr.left) \o " " \o cl.expr.op \o " "
                          \o OperandStr(cl.expr.right)
           /\ \A j \in 1..Len(text) : ~ IsSlot(text[j])
           /\ MarkerVals(text) = ExprArgs(cl.expr)
           /\ \E a, b \in 0..Len(Args(q)) :
                /\ a <= b
                /\ SubSeq(Args(q), a + 1, b) = MarkerVals(text)
  /\ (pc = "built" /\ Len(hist) > 1 /\ Len(q.clauses) > 0
        /\ (\A h \in 1..Len(hist) : hist[h].name \in {"Delete", "Where", "OrWhere"})
        /\ \A c \in 1..Len(q.clauses) : q.clauses[c].expr.type = "op") =>
       /\ \A k \in 1..Len(Slots(sql)) :
            Slots(sql)[k].s = "$" \o ToString(k) /\ Slots(sql)[k].v = Args(q)[k]
       /\ Len(Slots(sql)) = Len(Args(q))
       /\ \A j \in 1..Len(sql) : ~ IsMarker(sql[j])

(* Delete("posts", WhereEq("user_id", Arg(1)), WhereIn("id", sub-query with
   one argument)) has been built: $1 outside, $2 inside. *)
C7_Witness ==
  /\ pc = "built"
  /\ Names(hist) = <<"Delete", "Where", "Where">>
  /\ Str(sql) = "DELETE FROM posts WHERE (user_id = $1 AND id IN (SELECT post_id FROM post_tags WHERE (name LIKE $2)))"
  /\ Args(q) = <<Val("1"), Val("%foo%")>>

(* The list that WhereInList made of vals: the right operand of the last
   WHERE clause. *)
TheList == Last(q.clauses).expr.right

IsInline(v) == v.type \in {"lit", "ident"}

NotInline(v) == ~ IsInline(v)

(* The text of the list items as the statement of C8 has them: a literal
   or an identifier verbatim, anything else one marker. *)
ItemStrOriginal(v) == IF IsInline(v) THEN Str(ExprBuild(v)) ELSE "?"

(* The same with an item that is a list written as the list's own text. *)
ItemStr(v) == IF IsInline(v) \/ v.type = "list" THEN Str(ExprBuild(v)) ELSE "?"

(* C8 as stated: the items are written in input order, separated by ", " in
   one pair of parentheses; a literal or an identifier is written verbatim
   and contributes no argument, every other item is written as one "?" and
   its value is appended to the arguments in input order. *)
C8_ListItems_AsStated ==
  pc # "new" =>
    /\ Str(ExprBuild(TheList))
         = "(" \o JoinStr([i \in 1..Len(vals) |-> ItemStrOriginal(vals[i])], ", ") \o ")"
    /\ ExprArgs(TheList) = SelectSeq(vals, NotInline)

(* List(1, 2, 3) is written (?, ?, ?) with the arguments 1, 2, 3. *)
ListExample ==
  (pc # "new" /\ vals = <<Val("1"), Val("2"), Val("3")>>) =>
    /\ Str(ExprBuild(TheList)) = "(?, ?, ?)"
    /\ ExprArgs(TheList) = <<Val("1"), Val("2"), Val("3")>>

(* C8 amended: as stated, but an item that is itself a list is written as
   that list's own text (and appended as one argument). *)
C8_ListItems ==
  /\ pc # "new" =>
       /\ Str(ExprBuild(TheList))
            = "(" \o JoinStr([i \in 1..Len(vals) |-> ItemStr(vals[i])], ", ") \o ")"
       /\ ExprArgs(TheList) = SelectSeq(vals, NotInline)
  /\ ListExample

(* List(1, NOW(), 3) with a literal in the middle has been made. *)
C8_Witness ==
  /\ pc = "opts"
  /\ vals = <<Val("1"), Lit(Txt("NOW()")), Val("3")>>
  /\ Str(ExprBuild(TheList)) = "(?, NOW(), ?)"
  /\ ExprArgs(TheList) = <<Val("1"), Val("3")>>

IsWrappedList(v) == v.type = "list" /\ v.wrap

(* The number of items of the inner lists before the i-th. *)
RECURSIVE ItemsBefore(_, _)
ItemsBefore(ls, i) ==
  IF i <= 1 THEN 0 ELSE ItemsBefore(ls, i - 1) + Len(ls[i - 1].items)

(* The i-th inner list as a group of numbered placeholders. *)
Group(ls, i) ==
  "(" \o JoinStr([k \in 1..Len(ls[i].items) |->
                    "$" \o ToString(ItemsBefore(ls, i) + k)], ", ") \o ")"

(* The text before the list in the queries WhereInList makes. *)
ListPrefix ==
  (IF q.stmt = deleteStmt THEN "DELETE FROM posts WHERE ("
   ELSE "SELECT * FROM t WHERE (")
  \o Str(ExprBuild(Last(q.clauses).expr.left)) \o " IN "

(* C9: a List whose items are Lists writes every inner list as its own
   parenthesised group of placeholders, and Args() of the enclosing Query
   holds one element per inner list. *)
C9_NestedLists ==
  (pc = "built" /\ \A i \in 1..Len(vals) : IsWrappedList(vals[i])) =>
    /\ Str(sql) = ListPrefix
                  \o "(" \o JoinStr([i \in 1..Len(vals) |-> Group(vals, i)], ", ") \o ")"
                  \o ")"
    /\ Len(Args(q)) = Len(vals)
    /\ Args(q) = vals

(* Delete("posts", WhereIn("(id, title)", List(List(1, "foo"), List(2,
   "bar")))) has been built. *)
C9_Witness ==
  /\ pc = "built"
  /\ vals = <<List(<<Val("1"), Val("foo")>>), List(<<Val("2"), Val("bar")>>)>>
  /\ Str(sql) = "DELETE FROM posts WHERE ((id, title) IN (($1, $2), ($3, $4)))"
  /\ Len(Args(q)) = 2

(* C10: a List item that is a function call is written as the call's own
   text and contributes the call's arguments. *)
C10_CallItems ==
  (pc = "built" /\ \A i \in 1..Len(vals) : vals[i].type = "call") =>
    /\ Str(sql) = ListPrefix
                  \o "(" \o JoinStr([i \in 1..Len(vals) |->
                                       vals[i].name \o "($" \o ToString(i) \o ")"], ", ")
                  \o ")" \o ")"
    /\ Args(q) = [i \in 1..Len(vals) |-> vals[i].args[1].val]

(* The alias expression handed to Select, when the first call was one. *)
IsAliasSelect ==
  /\ pc = "built"
  /\ hist[1].name = "Select"
  /\ hist[1].e[1].type = "as"

(* C11: As(expr, name) and ColumnAs(in, out) render as the inner
   expression's text, then " AS ", then the alias name in double quotes. *)
C11_AliasDoubleQuoted ==
  IsAliasSelect =>
    \E i \in 1..Len(sql) :
      Str(SubSeq(sql, 1, i)) =
        "SELECT " \o Str(Renumber(ExprBuild(hist[1].e[1].in), 0))
                  \o " AS \"" \o hist[1].e[1].out \o "\""

----------------------------------------------------------------------------
(* The scanner's properties *)

(* Scan has been called and has returned or panicked. *)
Scanned == spc \in {"done", "panicked"}

(* Field i of the struct a Model points to. *)
FieldOf(m, i) == Elem(m).fields[i].val

(* The indexes of the columns named by one of the names. *)
ColumnsNamed(names) == {i \in 1..Len(cols) : cols[i] \in names}

(* C12: when the Model implements RowScanner, Scan only calls the Model's
   own Scan with a Row that carries the cursor's column names and returns
   that call's error unchanged: it resolves no field and converts and
   assigns nothing of its own. *)
C12_RowScannerBypass ==
  (Scanned /\ ImplementsRowScanner(before)) =>
    /\ rowarg = <<cols>>
    /\ ftab = None
    /\ serr = NotificationScan(before, cols, row).err
    /\ model = NotificationScan(before, cols, row).target
    /\ \A k \in 1..Len(handed) : \A d \in 1..Len(handed[k]) :
         handed[k][d] \in {FieldDest(<<1>>), LocalDest("data")}

(* A Notification has been scanned by its own Scan from the row (10, {"field":
   "value"}). *)
C12_Witness ==
  /\ spc = "done"
  /\ before = ModelOf(Notification0)
  /\ rowarg = <<<<Name("id"), Name("data")>>>>
  /\ serr = None
  /\ FieldOf(model, 1) = Int64(10)
  /\ FieldOf(model, 2) = Map("Data", {<<"field", "value">>})

(* C13: Row.Scan(desttab) hands the positional scan exactly the
   destinations of the row's columns that are keys of desttab, in the order
   of the columns; a key that is no column is ignored. *)
C13_RowScanOrder ==
  (Scanned /\ ImplementsRowScanner(before) /\ handed # <<>>) =>
    LET idx == ColumnsNamed({Name("id"), Name("data")}) IN
    /\ Len(handed) = 1
    /\ Len(handed[1]) = Cardinality(idx)
    /\ \A i \in idx :
         handed[1][Cardinality({j \in idx : j <= i})] =
           IF cols[i] = Name("id") THEN FieldDest(<<1>>) ELSE LocalDest("data")

(* Row.Scan was called on the columns data, id, and on the columns id,
   title, data of which title is no key. *)
C13_Witness ==
  /\ Scanned
  /\ ImplementsRowScanner(before)
  /\ \/ cols = <<Name("data"), Name("id")>>
        /\ handed = <<<<LocalDest("data"), FieldDest(<<1>>)>>>>
     \/ cols = <<Name("id"), Name("title"), Name("data")>>
        /\ handed = <<<<FieldDest(<<1>>), LocalDest("data")>>>>

(* A Model that points to a struct none of whose fields has a db tag and
   that has no Scan of its own. *)
NoDirectives(m) ==
  /\ m.kind = "ptr"
  /\ ~IsNil(m)
  /\ Elem(m).kind = "struct"
  /\ ~ImplementsRowScanner(m)
  /\ \A i \in 1..Len(Elem(m).fields) : Elem(m).fields[i].tag = <<>>

(* The columns whose name is a field's name up to case and whose value in
   the current row is not NULL. *)
ColumnsOf(fname) ==
  {k \in 1..Len(cols) : EqualFold(cols[k], <<fname>>) /\ row.vals[k] # Nil}

(* The greatest of a set of indexes. *)
MaxOf(S) == CHOOSE k \in S : \A j \in S : j <= k

(* C14: for a struct without db tags, a field that no non-NULL column
   matches, ignoring case, keeps the value it had before Scan; after a Scan
   without error a field that a column matches holds that column's value
   (of the field's own type); a column that matches no field is put in no
   table and assigned nowhere. *)
C14_FoldMatching ==
  (Scanned /\ NoDirectives(before) /\ row.cur) =>
    /\ \A i \in 1..Len(Elem(before).fields) :
         LET hit == ColumnsOf(Elem(before).fields[i].name) IN
         /\ hit = {} => FieldOf(model, i) = FieldOf(before, i)
         /\ (hit # {} /\ serr = None
              /\ row.vals[MaxOf(hit)].kind = FieldOf(before, i).kind
              /\ row.vals[MaxOf(hit)].typ = FieldOf(before, i).typ)
            => FieldOf(model, i) = row.vals[MaxOf(hit)]
    /\ ftab # None =>
         \A k \in 1..Len(cols) :
           (\A i \in 1..Len(Elem(before).fields) :
              ~EqualFold(cols[k], <<Elem(before).fields[i].name>>))
           => cols[k] \notin DOMAIN ftab.tab

(* The row (1, "hello", 3) of the columns ID, TITLE, extra has been scanned
   into a Post without tags: ID and Title are set, User is as it was. *)
C14_Witness ==
  /\ spc = "done"
  /\ before = ModelOf(Post(<<>>, NilUser))
  /\ cols = <<Name("ID"), Name("TITLE"), Name("extra")>>
  /\ serr = None
  /\ FieldOf(model, 1) = Int64(1)
  /\ FieldOf(model, 2) = NilUser
  /\ FieldOf(model, 3) = Text("hello")

(* A Model that points to a struct and has no Scan of its own. *)
IsReflected(m) ==
  m.kind = "ptr" /\ ~IsNil(m) /\ Elem(m).kind = "struct" /\ ~ImplementsRowScanner(m)

(* The segments of the db tag of field i of the struct. *)
Segments(sv, i) ==
  IF sv.fields[i].tag \in {<<>>, <<"-">>} THEN <<>> ELSE Split(sv.fields[i].tag, ",")

(* Field i holds a nil pointer and every segment of its tag has the form
   column:target. *)
NilDirected(sv, i) ==
  /\ sv.fields[i].val.kind = "ptr"
  /\ IsNil(sv.fields[i].val)
  /\ Segments(sv, i) # <<>>
  /\ \A k \in 1..Len(Segments(sv, i)) :
       /\ Contains(Segments(sv, i)[k], ":")
       /\ SplitN2(Segments(sv, i)[k], ":")[2] # <<>>

(* C15: a field that holds a nil pointer and whose tag has only segments
   of the form column:target puts nothing in the field table: after Scan
   the pointer is still nil, no element of the table leads to or into the
   field, the columns the segments name are no keys of the table, and the
   error of Scan is neither a StructFieldError nor a panic. *)
C15_NilNestedSkipped ==
  (Scanned /\ IsReflected(before)) =>
    \A i \in 1..Len(Elem(before).fields) :
      NilDirected(Elem(before), i) =>
        /\ FieldOf(model, i) = FieldOf(before, i)
        /\ serr.type \notin {"StructFieldError", "panic"}
        /\ ftab # None
        /\ \A e \in 1..Len(ftab.arr) : ftab.arr[e].val[1] # i
        /\ \A k \in 1..Len(Segments(Elem(before), i)) :
             SplitN2(Segments(Elem(before), i)[k], ":")[1] \notin DOMAIN ftab.tab

(* A Post whose User is nil and tagged user_id:id,users.*:* has been
   scanned from a row with the columns user_id and users.id: the Post's own
   fields are set and User is nil. *)
C15_Witness ==
  /\ spc = "done"
  /\ before = ModelOf(Post(TagRelations, NilUser))
  /\ Len(cols) = 5
  /\ serr = None
  /\ FieldOf(model, 1) = Int64(1)
  /\ FieldOf(model, 2) = NilUser
  /\ FieldOf(model, 3) = Text("hello")

(* Field i of the struct holds a pointer to a struct. *)
HoldsRecord(sv, i) ==
  /\ sv.fields[i].val.kind = "ptr"
  /\ ~IsNil(sv.fields[i].val)
  /\ Elem(sv.fields[i].val).kind = "struct"

(* The tag of field i has the segment *:* *)
HoistsAll(sv, i) ==
  \E k \in 1..Len(Segments(sv, i)) : Segments(sv, i)[k] = <<"*", ":", "*">>

(* The prefixes p of the segments p.*:* of the tag of field i. *)
HoistPrefixes(sv, i) ==
  {<<p>> : p \in {seg[1] : seg \in {Segments(sv, i)[k] : k \in 1..Len(Segments(sv, i))}
                                    \cap {<<w, ".", "*", ":", "*">> : w \in {"users"}}}}

(* The untagged fields of the struct field i points to. *)
NestedFields(sv, i) ==
  {j \in 1..Len(Elem(sv.fields[i].val).fields) :
     Elem(sv.fields[i].val).fields[j].tag = <<>>}

NestedName(sv, i, j) == <<Elem(sv.fields[i].val).fields[j].name>>

(* The element of the field table a name is a key of. *)
Entry(key) == ftab.arr[ftab.tab[key]]

(* The columns named key up to case whose value in the current row is not
   NULL. *)
ColumnsLike(key) ==
  {k \in 1..Len(cols) : EqualFold(cols[k], key) /\ row.vals[k] # Nil}

(* The columns that the field table leads to the slot at a path. *)
ColumnsInto(path) ==
  {k \in 1..Len(cols) : cols[k] \in DOMAIN ftab.tab /\ Entry(cols[k]).val = path}

(* The prefixed half of C16: prefix.*:* puts every field of the nested
   struct under prefix.name, a column prefix.name is assigned to that field
   of the nested struct, and a field of the parent is only ever assigned
   from a column of its own name. *)
PrefixHoisted(sv, i) ==
  \A prefix \in HoistPrefixes(sv, i) : \A j \in NestedFields(sv, i) :
    LET key == prefix \o <<".">> \o NestedName(sv, i, j)
        hit == ColumnsLike(key)
    IN
    /\ key \in DOMAIN ftab.tab
    /\ Entry(key).val = <<i, j>>
    /\ (serr = None /\ row.cur /\ hit # {}
         /\ MaxOf(hit) = MaxOf(ColumnsInto(<<i, j>>) \cup hit)
         /\ row.vals[MaxOf(hit)].typ = ValAt(before, <<i, j>>).typ)
        => ValAt(model, <<i, j>>) = row.vals[MaxOf(hit)]
    /\ (serr = None /\ row.cur) =>
         \A p \in 1..Len(sv.fields) :
           (sv.fields[p].tag = <<>> /\ EqualFold(<<sv.fields[p].name>>, NestedName(sv, i, j)))
           => LET own == ColumnsLike(<<sv.fields[p].name>>) IN
              /\ own = {} => FieldOf(model, p) = FieldOf(before, p)
              /\ (own # {} /\ row.vals[MaxOf(own)].typ = sv.fields[p].val.typ)
                 => FieldOf(model, p) = row.vals[MaxOf(own)]

(* C16 as the claim states it: *:* puts every field of the nested struct
   in the parent's table under its own name, and prefix.*:* under
   prefix.name. *)
C16_HoistsEveryField ==
  (Scanned /\ IsReflected(before) /\ ftab # None) =>
    \A i \in 1..Len(Elem(before).fields) :
      HoldsRecord(Elem(before), i) =>
        /\ HoistsAll(Elem(before), i) =>
             \A j \in NestedFields(Elem(before), i) :
               /\ NestedName(Elem(before), i, j) \in DOMAIN ftab.tab
               /\ Entry(NestedName(Elem(before), i, j)).val = <<i, j>>
        /\ PrefixHoisted(Elem(before), i)

(* C16: *:* puts every field of the nested struct in the parent's table
   under its own name unless a field declared before it already has that
   name in the table, which then keeps it; prefix.*:* puts them under
   prefix.name, so that a column users.id is assigned to the nested ID and a
   field of the parent only from a column of its own name. *)
C16_Hoisting ==
  (Scanned /\ IsReflected(before) /\ ftab # None) =>
    \A i \in 1..Len(Elem(before).fields) :
      HoldsRecord(Elem(before), i) =>
        /\ HoistsAll(Elem(before), i) =>
             \A j \in NestedFields(Elem(before), i) :
               /\ NestedName(Elem(before), i, j) \in DOMAIN ftab.tab
               /\ \/ Entry(NestedName(Elem(before), i, j)).val = <<i, j>>
                  \/ /\ Entry(NestedName(Elem(before), i, j)).val[1] < i
                     /\ \E p \in 1..(i - 1) :
                          /\ <<Elem(before).fields[p].name>> = NestedName(Elem(before), i, j)
                          /\ Elem(before).fields[p].tag = <<>>
        /\ PrefixHoisted(Elem(before), i)

(* The row (1, 2, "hello", 3, "a@x") of the columns id, user_id, title,
   users.id, users.email has been scanned into a Post whose User is tagged
   user_id:id,users.*:* : the Post's ID is 1 and its User's ID is 3. *)
C16_Witness ==
  /\ spc = "done"
  /\ before = ModelOf(Post(TagRelations, UserPtr(2, 0)))
  /\ Len(cols) = 5
  /\ serr = None
  /\ Dotted("users", "ID") \in DOMAIN ftab.tab
  /\ FieldOf(model, 1) = Int64(1)
  /\ ValAt(model, <<2, 1>>) = Int64(3)
  /\ ValAt(model, <<2, 2>>) = Text("a@x")

(* The prefixes p of the segments p.* of the tag of field i that have no
   `:` part. *)
BarePrefixes(sv, i) ==
  {<<p>> : p \in {seg[1] : seg \in {Segments(sv, i)[k] : k \in 1..Len(Segments(sv, i))}
                                    \cap {<<w, ".", "*">> : w \in {"users"}}}}

(* C17: a segment prefix.* without a `:` part hoists the fields of the
   nested struct under prefix.name as prefix.*:* does: after a Scan without
   error of a struct whose field is tagged user_id:id,users.* the table
   leads from users.id to the nested ID and the nested ID holds the value of
   the column users.id. *)
C17_BarePrefixHoists ==
  (spc = "done" /\ serr = None /\ row.cur /\ IsReflected(before) /\ ftab # None) =>
    \A i \in 1..Len(Elem(before).fields) :
      HoldsRecord(Elem(before), i) =>
        \A prefix \in BarePrefixes(Elem(before), i) :
          \A j \in NestedFields(Elem(before), i) :
            LET key == prefix \o <<".">> \o NestedName(Elem(before), i, j)
                hit == ColumnsLike(key)
            IN
            /\ key \in DOMAIN ftab.tab
            /\ Entry(key).val = <<i, j>>
            /\ (hit # {} /\ MaxOf(hit) = MaxOf(ColumnsInto(<<i, j>>) \cup hit)
                 /\ row.vals[MaxOf(hit)].typ = ValAt(before, <<i, j>>).typ)
                => ValAt(model, <<i, j>>) = row.vals[MaxOf(hit)]

(* Segment k of the tag of field i is column:target with a target that
   names no field of the struct the field points to. *)
Unresolved(sv, i, k) ==
  LET seg == Segments(sv, i)[k] IN
  /\ Contains(seg, ":")
  /\ SplitN2(seg, ":")[2] \notin {<<>>, <<"*">>}
  /\ ~Contains(SplitN2(seg, ":")[1], ".")
  /\ \A j \in 1..Len(Elem(sv.fields[i].val).fields) :
       ~EqualFold(<<Elem(sv.fields[i].val).fields[j].name>>, SplitN2(seg, ":")[2])

(* C18 as the claim states it: a segment column:target whose target names
   no field of the non-nil nested struct makes Scan return a
   StructFieldError. *)
C18_UnknownTargetFails ==
  (Scanned /\ IsReflected(before)) =>
    \A i \in 1..Len(Elem(before).fields) :
      HoldsRecord(Elem(before), i) =>
        \A k \in 1..Len(Segments(Elem(before), i)) :
          Unresolved(Elem(before), i, k) => serr.type = "StructFieldError"

(* C18: a segment column:target whose target names no field of the non-nil
   nested struct is ignored: Scan returns no StructFieldError and does not
   panic, the column is no key of the field table, and when the tag has no
   other segment the nested struct is after Scan as it was before. *)
C18_UnknownTargetIgnored ==
  (Scanned /\ IsReflected(before)) =>
    \A i \in 1..Len(Elem(before).fields) :
      HoldsRecord(Elem(before), i) =>
        \A k \in 1..Len(Segments(Elem(before), i)) :
          Unresolved(Elem(before), i, k) =>
            /\ serr.type \notin {"StructFieldError", "panic"}
            /\ ftab # None
            /\ SplitN2(Segments(Elem(before), i)[k], ":")[1] \notin DOMAIN ftab.tab
            /\ Len(Segments(Elem(before), i)) = 1
                => FieldOf(model, i) = FieldOf(before, i)

(* The row (2, 1) of the columns user_id, id has been scanned without error
   into a Post whose User is tagged user_id:uid: the Post's ID is 1 and the
   User's ID is 0 as before. *)
C18_Witness ==
  /\ spc = "done"
  /\ before = ModelOf(Post(TagUnknown, UserPtr(2, 0)))
  /\ cols = <<Name("user_id"), Name("id")>>
  /\ serr = None
  /\ FieldOf(model, 1) = Int64(1)
  /\ ValAt(model, <<2, 1>>) = Int64(0)

(* The integer that the decimal text of a value of the cursors writes, and
   whether the text has a sign; ok is FALSE for a value whose text is no
   integer. *)
IntegerOf(v) ==
  CASE v.kind = "int64" -> [ok |-> TRUE, n |-> v.n, sign |-> v.n < 0]
    [] v = String(<<"1", "2">>) -> [ok |-> TRUE, n |-> 12, sign |-> FALSE]
    [] v = String(<<"1", "0">>) -> [ok |-> TRUE, n |-> 10, sign |-> FALSE]
    [] v = String(<<"3", "0", "0">>) -> [ok |-> TRUE, n |-> 300, sign |-> FALSE]
    [] v = String(<<"+", "5">>) -> [ok |-> TRUE, n |-> 5, sign |-> TRUE]
    [] v = String(<<"-", "0">>) -> [ok |-> TRUE, n |-> 0, sign |-> TRUE]
    [] v = Bytes(<<"4", "2">>) -> [ok |-> TRUE, n |-> 42, sign |-> FALSE]
    [] v = Float64(<<"7">>) -> [ok |-> TRUE, n |-> 7, sign |-> FALSE]
    [] OTHER -> [ok |-> FALSE, n |-> 0, sign |-> FALSE]

(* The fields of Number that the columns int8, uint8, uint16 and i are
   scanned into, with the least and the greatest number of their types; I
   has 64 bits, which every number of the cursors is in the range of. *)
IntegerColumns ==
  {[col |-> Name("int8"),   fld |-> 2, unsigned |-> FALSE, min |-> 0 - 128, max |-> 127],
   [col |-> Name("uint8"),  fld |-> 3, unsigned |-> TRUE,  min |-> 0, max |-> 255],
   [col |-> Name("uint16"), fld |-> 4, unsigned |-> TRUE,  min |-> 0, max |-> 65535],
   [col |-> Name("i"),      fld |-> 1, unsigned |-> FALSE, min |-> 0 - 70000, max |-> 70000]}

(* C19: a non-NULL value scanned into an integer field is parsed from its
   decimal text at the field's width and signedness.  Scan succeeds exactly
   when the text writes an integer (for an unsigned field without any sign)
   that is in the range of the field's type, and then the field holds that
   number; otherwise Scan returns an error and the field holds what it did.
   No other field of the struct changes. *)
C19_IntegerWidth ==
  (Scanned /\ before = ModelOf(Number0) /\ row.cur /\ Len(cols) = 1) =>
    \A c \in IntegerColumns :
      (cols[1] = c.col /\ row.vals[1] # Nil) =>
        LET v  == IntegerOf(row.vals[1])
            ok == v.ok /\ (c.unsigned => ~v.sign) /\ c.min <= v.n /\ v.n <= c.max
        IN
        /\ ok => serr = None /\ FieldOf(model, c.fld).n = v.n
        /\ ~ok => serr.type = "error" /\ FieldOf(model, c.fld) = FieldOf(before, c.fld)
        /\ FieldOf(model, c.fld).typ = FieldOf(before, c.fld).typ
        /\ \A i \in 1..Len(Elem(before).fields) :
             i # c.fld => FieldOf(model, i) = FieldOf(before, i)

(* The text "300" has been scanned into the field Uint8: Scan returned a
   range error and the field holds 5 as before. *)
C19_Witness ==
  /\ spc = "done"
  /\ before = ModelOf(Number0)
  /\ cols = <<Name("uint8")>>
  /\ row = CurRow(<<String(<<"3", "0", "0">>)>>)
  /\ serr.type = "error"
  /\ serr.err = "ErrRange"
  /\ FieldOf(model, 3) = IntOf("uint8", 5)

(* C20: Scan only sets a field of pointer kind that is nil, and only from a
   column whose value is not NULL: the field then points to a new holder of
   that value.  A field that already points to a value points to the same
   holder with the same value after Scan, and a field whose columns are all
   NULL or absent is not changed. *)
C20_PointerField ==
  (Scanned /\ IsReflected(before) /\ row.cur) =>
    \A i \in 1..Len(Elem(before).fields) :
      (Elem(before).fields[i].val.kind = "ptr" /\ Elem(before).fields[i].tag = <<>>) =>
        LET was == FieldOf(before, i)
            now == FieldOf(model, i)
            hit == ColumnsOf(Elem(before).fields[i].name)
        IN
        /\ ~IsNil(was) => now = was
        /\ hit = {} => now = was
        /\ now # was =>
             /\ IsNil(was)
             /\ ~IsNil(now)
             /\ now.p.addr # before.p.addr
             /\ \E k \in hit : Elem(now) = row.vals[k]
        /\ (IsNil(was) /\ hit # {} /\ serr = None) => ~IsNil(now)

(* A time has been scanned into a Pointer whose Time was nil: Time points to
   a new holder of that time. *)
C20_Witness ==
  /\ spc = "done"
  /\ before = ModelOf(Pointer(NilP))
  /\ row = CurRow(<<Time(4)>>)
  /\ serr = None
  /\ ~IsNil(FieldOf(model, 1))
  /\ Elem(FieldOf(model, 1)) = Time(4)
  /\ FieldOf(model, 1).p.addr # model.p.addr

(* The least of a set of indexes. *)
MinOf(S) == CHOOSE k \in S : \A j \in S : k <= j

(* C25: when several columns of the row match one field of a struct
   without db tags, the field holds after a Scan without error the value of
   the first of them that is not NULL, and the later ones do not overwrite
   it. *)
C25_FirstColumnWins ==
  (spc = "done" /\ serr = None /\ NoDirectives(before) /\ row.cur) =>
    \A i \in 1..Len(Elem(before).fields) :
      LET hit == ColumnsOf(Elem(before).fields[i].name) IN
      (hit # {} /\ row.vals[MinOf(hit)].typ = FieldOf(before, i).typ)
      => FieldOf(model, i) = row.vals[MinOf(hit)]

(* The tag of field i is the one segment column:target of two plain
   names. *)
MapsColumn(sv, i) ==
  /\ Len(Segments(sv, i)) = 1
  /\ Len(Segments(sv, i)[1]) = 3
  /\ Segments(sv, i)[1][2] = ":"

(* C29: for a struct with its own field F and a field tagged column:target
   that points to a struct whose field target has F's name up to case,
   after a Scan without error F holds the value of a column named like F,
   or what it held when there is none, and the nested field holds the value
   of a column named column, or what it held when there is none (values of
   the fields' own types are looked at); this in either order of
   declaration of the two fields. *)
C29_OwnFieldAndNestedTarget ==
  (spc = "done" /\ serr = None /\ IsReflected(before) /\ row.cur) =>
    \A i \in 1..Len(Elem(before).fields) :
      (HoldsRecord(Elem(before), i) /\ MapsColumn(Elem(before), i)) =>
        \A p \in 1..Len(Elem(before).fields) : \A j \in NestedFields(Elem(before), i) :
          (/\ Elem(before).fields[p].tag = <<>>
           /\ EqualFold(<<Elem(before).fields[p].name>>, <<Segments(Elem(before), i)[1][3]>>)
           /\ EqualFold(NestedName(Elem(before), i, j), <<Segments(Elem(before), i)[1][3]>>))
          =>
          LET own  == ColumnsLike(<<Elem(before).fields[p].name>>)
              into == ColumnsLike(<<Segments(Elem(before), i)[1][1]>>)
          IN
          /\ own = {} => FieldOf(model, p) = FieldOf(before, p)
          /\ own # {} =>
               \E k \in own : \/ row.vals[k].typ # FieldOf(before, p).typ
                               \/ FieldOf(model, p) = row.vals[k]
          /\ into = {} => ValAt(model, <<i, j>>) = ValAt(before, <<i, j>>)
          /\ into # {} =>
               \E k \in into : \/ row.vals[k].typ # ValAt(before, <<i, j>>).typ
                                \/ ValAt(model, <<i, j>>) = row.vals[k]

(* A segment of the tag of a field of the struct has a `:` and no target,
   or a dotted column with nothing before the dot. *)
HasBadSegment(sv) ==
  \E i \in 1..Len(sv.fields) : \E k \in 1..Len(Segments(sv, i)) :
    LET seg == Segments(sv, i)[k] IN
    /\ Contains(seg, ":")
    /\ \/ SplitN2(seg, ":")[2] = <<>>
       \/ /\ Contains(SplitN2(seg, ":")[1], ".")
          /\ SplitN2(SplitN2(seg, ":")[1], ".")[1] = <<>>

(* The targets C26 is about. *)
IsBadTarget(m) ==
  \/ m.kind # "ptr"
  \/ IsNil(m)
  \/ Elem(m).kind # "struct"
  \/ HasBadSegment(Elem(m))

(* C26: Scan of a target that is no pointer, a nil pointer, a pointer to a
   value that is no struct, or a struct with a segment `col:` or `.x:y` in
   a tag returns an error, hands nothing to the cursor's Scan and leaves
   the target as it was. *)
C26_BadTargetFails ==
  (Scanned /\ ~ImplementsRowScanner(before) /\ IsBadTarget(before)) =>
    /\ serr.type \in {"error", "StructFieldError"}
    /\ handed = <<>>
    /\ model = before

(* A Model that points to a struct whose fields have no tag or the tag of
   one plain alias. *)
IsPlain(m) ==
  /\ IsReflected(m)
  /\ \A i \in 1..Len(Elem(m).fields) :
       \/ Elem(m).fields[i].tag = <<>>
       \/ Len(Elem(m).fields[i].tag) = 1 /\ Elem(m).fields[i].tag # <<"-">>

(* The name a field of such a struct is looked up by. *)
KeyOf(sv, i) == IF sv.fields[i].tag = <<>> THEN <<sv.fields[i].name>> ELSE sv.fields[i].tag

(* The field of such a struct that a column is scanned into, 0 for none:
   the field of that very name, or else the first of that name up to
   case. *)
FieldFor(sv, col) ==
  IF \E i \in 1..Len(sv.fields) : KeyOf(sv, i) = col
  THEN CHOOSE i \in 1..Len(sv.fields) : KeyOf(sv, i) = col
  ELSE IF \E i \in 1..Len(sv.fields) : EqualFold(KeyOf(sv, i), col)
  THEN MinOf({i \in 1..Len(sv.fields) : EqualFold(KeyOf(sv, i), col)})
  ELSE 0

(* The texts that write a truth value and the texts of the cursors that
   write a number. *)
BoolTexts ==
  {<<"1">>, <<"t">>, <<"T">>, <<"t", "r", "u", "e">>, <<"T", "R", "U", "E">>,
   <<"T", "r", "u", "e">>, <<"0">>, <<"f">>, <<"F">>, <<"f", "a", "l", "s", "e">>,
   <<"F", "A", "L", "S", "E">>, <<"F", "a", "l", "s", "e">>}

NumberTexts ==
  {<<"1", "2">>, <<"1", "0">>, <<"3", "0", "0">>, <<"+", "5">>, <<"-", "0">>, <<"4", "2">>}

(* Whether a value of the cursors that is not NULL cannot be converted to
   the type of a field: a number that its text does not write or that is
   out of the type's range, a truth value that its text does not write, a
   value of another kind than the field's. *)
Uncoercible(fv, src) ==
  CASE fv.kind = "ptr" -> FALSE
    [] fv.kind = "bool" ->
         ~(\/ src.kind \in {"bool", "int64"}
           \/ src.kind \in {"string", "slice"} /\ src.s \in BoolTexts
           \/ src.kind = "float64" /\ src.f \in BoolTexts)
    [] fv.kind \in {"int", "int64"} -> ~IntegerOf(src).ok
    [] fv.kind = "int8" ->
         ~(IntegerOf(src).ok /\ 0 - 128 <= IntegerOf(src).n /\ IntegerOf(src).n <= 127)
    [] fv.kind = "uint8" ->
         ~(IntegerOf(src).ok /\ ~IntegerOf(src).sign /\ IntegerOf(src).n <= 255)
    [] fv.kind = "uint16" ->
         ~(IntegerOf(src).ok /\ ~IntegerOf(src).sign /\ IntegerOf(src).n <= 65535)
    [] fv.kind = "float64" ->
         ~(\/ src.kind \in {"int64", "float64"}
           \/ src.kind \in {"string", "slice"} /\ src.s \in NumberTexts)
    [] fv.typ = "sql.NullInt64" -> ~IntegerOf(src).ok
    [] OTHER -> fv.kind # src.kind

(* The columns of the current row whose value cannot be converted to the
   type of the field they are scanned into. *)
FailingColumns ==
  {k \in 1..Len(cols) :
     /\ FieldFor(Elem(before), cols[k]) # 0
     /\ row.vals[k] # Nil
     /\ Uncoercible(FieldOf(before, FieldFor(Elem(before), cols[k])), row.vals[k])}

(* C27: when the value of some column of the row cannot be converted, Scan
   returns an error, the error of the first such column; the field of that
   column and the fields of the later columns hold what they held, unless
   an earlier column was scanned into them. *)
C27_StopsAtFirstFailure ==
  (Scanned /\ IsPlain(before) /\ row.cur /\ FailingColumns # {}) =>
    LET first == MinOf(FailingColumns) IN
    /\ serr.type \in {"error", "ColumnScanError"}
    /\ serr.type = "ColumnScanError" => serr.Column = cols[first]
    /\ \A i \in 1..Len(Elem(before).fields) :
         (\A k \in 1..(first - 1) : FieldFor(Elem(before), cols[k]) # i)
         => FieldOf(model, i) = FieldOf(before, i)

(* The row (1, "yes", 1) of the columns n, bool, float64 has been scanned
   into a Number: Count is 1, Scan returned the error of "yes" for Bool, and
   Bool and Float64 hold what they held. *)
C27_Witness ==
  /\ spc = "done"
  /\ before = ModelOf(Number0)
  /\ cols = <<Name("n"), Name("bool"), Name("float64")>>
  /\ row = CurRow(<<Int64(1), Text("yes"), Int64(1)>>)
  /\ FailingColumns = {2}
  /\ serr.type = "error"
  /\ FieldOf(model, 7) = NullInt64(1, TRUE)
  /\ FieldOf(model, 6) = Bool(FALSE)
  /\ FieldOf(model, 5) = Float64(<<"0">>)

(* Clauses a..b of the Query are a maximal run of WHERE clauses. *)
IsWhereRun(a, b) ==
  /\ a <= b
  /\ \A i \in a..b : q.clauses[i].kind = _whereClause
  /\ a = 1 \/ q.clauses[a - 1].kind # _whereClause
  /\ b = Len(q.clauses) \/ q.clauses[b + 1].kind # _whereClause

(* What the loop over q.clauses writes in its passes a..b. *)
PassesText(a, b) ==
  Flat([i \in 1..(b - a + 1) |->
          clauseOpen(q, a + i - 1) \o clauseBuild(q.clauses[a + i - 1])
          \o clauseClose(q, a + i - 1)])

IsOpen(tok) == tok.s = "("

IsClose(tok) == tok.s = ")"

(* C23: in the built text every maximal run of WHERE clauses, a second
   run after clauses of another kind included, has a `(` before its first
   clause and a `)` after its last clause, which comes before the space and
   the keyword of the next clause, and as many `(` as `)` in between. *)
C23_WhereRunsEnclosed ==
  pc = "built" =>
    \A a, b \in 1..Len(q.clauses) :
      IsWhereRun(a, b) =>
        /\ clauseOpen(q, a) # <<>>
        /\ IsOpen(Last(clauseOpen(q, a)))
        /\ IsClose(clauseClose(q, b)[1])
        /\ Len(SelectSeq(PassesText(a, b), IsOpen))
             = Len(SelectSeq(PassesText(a, b), IsClose))


----------------------------------------------------------------------------
(* Clause keywords and joins *)

(* The token the spec gives between adjacent clauses of a listed kind. *)
JoinToken(kind) ==
  IF kind = _unionClause THEN " UNION " ELSE ", "

JoinedKinds == {_orderClause, _setClause, _valuesClause, _unionClause}

(* The clauses of the Query are all of the one kind. *)
AllOfKind(kind) ==
  /\ q.clauses # <<>>
  /\ \A i \in 1..Len(q.clauses) : q.clauses[i].kind = kind

(* The text before the clauses: statement keyword, table and expressions. *)
HeadText ==
  stmtText(q) \o Flat([i \in 1..Len(q.exprs) |-> exprText(q, i)])

(* C24: the keyword of a clause kind is written once, at the first clause of
   that kind in the clause list; adjacent clauses of the same kind are joined
   by ", " for ORDER BY, SET and VALUES and by " UNION " between the
   sub-queries of a Union, which writes no statement keyword of its own and
   renders each sub-query's unnumbered text. *)
C24_KeywordOnce ==
  pc = "built" =>
    /\ \A i \in 1..Len(q.clauses) :
         LET kind == q.clauses[i].kind
             same == {j \in 1..Len(q.clauses) : q.clauses[j].kind = kind}
         IN /\ (clauseOpen(q, i) # <<>>)
                 <=> (kind # _unionClause /\ i = MinOf(same))
            /\ clauseOpen(q, i) # <<>> => Str(<<clauseOpen(q, i)[1]>>) = kind
    /\ \A i \in 1..(Len(q.clauses) - 1) :
         (/\ q.clauses[i].kind = q.clauses[i + 1].kind
          /\ q.clauses[i].kind \in JoinedKinds)
           => Str(clauseClose(q, i) \o clauseOpen(q, i + 1))
                = JoinToken(q.clauses[i].kind)
    /\ \A kind \in JoinedKinds \ {_unionClause} :
         AllOfKind(kind) =>
           sql = Renumber(HeadText \o Txt(kind) \o Txt(" ")
                          \o JoinT([i \in 1..Len(q.clauses) |->
                                      clauseBuild(q.clauses[i])], ", "), 0)
    /\ (q.stmt = noStmt /\ AllOfKind(_unionClause)) =>
         sql = Renumber(JoinT([i \in 1..Len(q.clauses) |->
                                buildInitial(q.clauses[i].q)], " UNION "), 0)

(* A built INSERT with two VALUES clauses. *)
C24_Witness ==
  /\ pc = "built"
  /\ q.stmt = insertStmt
  /\ Len(q.clauses) = 2
  /\ AllOfKind(_valuesClause)
  /\ Str(sql) = "INSERT INTO posts (title, body) VALUES ($1, $2), ($3, $4)"


----------------------------------------------------------------------------
(* The truth value of a rendered run of WHERE clauses *)

Sym(t) == [t |-> t, i |-> 0]

Atom(i) == [t |-> "atom", i |-> i]

(* The symbols of a written text: parentheses and AND/OR tokens. *)
Syms(text) ==
  LET kept == SelectSeq(text, LAMBDA p : p.s \in {"(", ")", " AND ", " OR "})
  IN [k \in 1..Len(kept) |-> Sym(kept[k].s)]

(* The passes a..b of the loop over q.clauses with clause i's own text
   replaced by the atom i. *)
RunSyms(a, b) ==
  Flat([k \in 1..(b - a + 1) |->
          Syms(clauseOpen(q, a + k - 1)) \o <<Atom(a + k - 1)>>
          \o Syms(clauseClose(q, a + k - 1))])

(* The nesting depth at position i of the symbols lo..hi. *)
DepthAt(syms, lo, i) ==
  Cardinality({k \in lo..(i - 1) : syms[k].t = "("})
  - Cardinality({k \in lo..(i - 1) : syms[k].t = ")"})

(* The positions in lo..hi of the token t outside every parenthesis. *)
TopLevel(syms, lo, hi, t) ==
  {i \in lo..hi : syms[i].t = t /\ DepthAt(syms, lo, i) = 0}

(* The symbols lo..hi parse as a condition. *)
RECURSIVE WellFormed(_, _, _)
WellFormed(syms, lo, hi) ==
  IF lo > hi THEN FALSE
  ELSE IF TopLevel(syms, lo, hi, " OR ") # {}
  THEN LET k == MinOf(TopLevel(syms, lo, hi, " OR "))
       IN WellFormed(syms, lo, k - 1) /\ WellFormed(syms, k + 1, hi)
  ELSE IF TopLevel(syms, lo, hi, " AND ") # {}
  THEN LET k == MinOf(TopLevel(syms, lo, hi, " AND "))
       IN WellFormed(syms, lo, k - 1) /\ WellFormed(syms, k + 1, hi)
  ELSE IF lo = hi THEN syms[lo].t = "atom"
  ELSE /\ syms[lo].t = "(" /\ syms[hi].t = ")"
       /\ \A i \in (lo + 1)..hi : DepthAt(syms, lo, i) > 0
       /\ WellFormed(syms, lo + 1, hi - 1)

(* The value of the symbols lo..hi under SQL precedence: parentheses first,
   AND tighter than OR. *)
RECURSIVE Value(_, _, _, _)
Value(syms, lo, hi, asg) ==
  IF TopLevel(syms, lo, hi, " OR ") # {}
  THEN LET k == MinOf(TopLevel(syms, lo, hi, " OR "))
       IN Value(syms, lo, k - 1, asg) \/ Value(syms, k + 1, hi, asg)
  ELSE IF TopLevel(syms, lo, hi, " AND ") # {}
  THEN LET k == MinOf(TopLevel(syms, lo, hi, " AND "))
       IN Value(syms, lo, k - 1, asg) /\ Value(syms, k + 1, hi, asg)
  ELSE IF lo = hi THEN asg[syms[lo].i]
  ELSE Value(syms, lo + 1, hi - 1, asg)

(* The clauses a..b combined left to right in call order. *)
RECURSIVE LeftToRight(_, _, _)
LeftToRight(a, b, asg) ==
  IF a = b THEN asg[a]
  ELSE IF q.clauses[b].conj = "AND"
       THEN LeftToRight(a, b - 1, asg) /\ asg[b]
       ELSE LeftToRight(a, b - 1, asg) \/ asg[b]

(* C28: for every run of consecutive WHERE clauses c1..cn with tokens
   t2..tn the rendered condition, read with SQL precedence, has the truth
   value of ((c1 t2 c2) t3 c3) ... tn cn under every assignment of truth
   values to the clauses. *)
C28_CallOrderTruthValue ==
  pc = "built" =>
    \A a, b \in 1..Len(q.clauses) :
      IsWhereRun(a, b) =>
        LET syms == RunSyms(a, b)
        IN /\ WellFormed(syms, 1, Len(syms))
           /\ \A asg \in [a..b -> BOOLEAN] :
                Value(syms, 1, Len(syms), asg) = LeftToRight(a, b, asg)


----------------------------------------------------------------------------
(* The Store's operations *)

(* The statement the last call of the Store executed. *)
LastExec == execd[Len(execd)]

(* C21: Store.Create and Store.Delete called with an empty list of models
   execute no statement, so change no stored row, and return no error. *)
C21_EmptyListNoStatement ==
  [][(call'.op \in {"Create", "Delete"} /\ call'.mm = <<>>)
       => (execd' = execd /\ stq' = None /\ ret' = None)]_vars

(* Create and Delete have been called with an empty list after a statement
   was executed. *)
C21_Witness ==
  /\ call.op \in {"Create", "Delete"}
  /\ call.mm = <<>>
  /\ execd # <<>>
  /\ ret = None

(* The parameters of M by mode, as M.Params declares them. *)
CreateOnlyNames == {"id"}

MutableNames == {"str"}

UpdateOnlyNames == {"null_time"}

(* The columns of the column list of an INSERT. *)
InsertColumns(query) ==
  [k \in 1..Len(query.exprs[1].items) |-> Str(query.exprs[1].items[k])]

(* The columns of the SET clauses of a Query, in order. *)
SetColumns(query) ==
  LET sets == SelectSeq(query.clauses, LAMBDA cl : cl.kind = _setClause)
  IN [k \in 1..Len(sets) |-> sets[k].col]

Range(seq) == {seq[k] : k \in DOMAIN seq}

NoRepeat(seq) == Cardinality(Range(seq)) = Len(seq)

(* C22: Create inserts exactly the parameters that are create-only or
   mutable, Update sets exactly the parameters that are update-only or
   mutable, UpdateMany sets exactly the given fields that are parameters of
   the model and update-only or mutable; a create-only column is never set
   by Update or UpdateMany and an unknown field is ignored. *)
C22_ParameterModes ==
  /\ (call.op = "Create" /\ call.mm # <<>>) =>
       /\ Range(InsertColumns(stq)) = CreateOnlyNames \cup MutableNames
       /\ NoRepeat(InsertColumns(stq))
  /\ call.op = "Update" =>
       /\ Range(SetColumns(stq)) = UpdateOnlyNames \cup MutableNames
       /\ NoRepeat(SetColumns(stq))
  /\ call.op = "UpdateMany" =>
       /\ Range(SetColumns(stq))
            = {call.fields[k][1] : k \in DOMAIN call.fields}
                \cap (UpdateOnlyNames \cup MutableNames)
       /\ NoRepeat(SetColumns(stq))
  /\ call.op \in {"Update", "UpdateMany"} =>
       \A k \in 1..Len(stq.clauses) :
         stq.clauses[k].kind = _setClause =>
           stq.clauses[k].col \notin CreateOnlyNames \cup {"non_existent"}

(* UpdateMany has been called with the create-only id and a field that is
   no parameter: no column is set. *)
C22_Witness ==
  /\ call.op = "UpdateMany"
  /\ [k \in 1..Len(call.fields) |-> call.fields[k][1]] = <<"id", "non_existent">>
  /\ execd # <<>>
  /\ LastExec.query = "UPDATE models WHERE (id IN ($1, $2))"

(* The value of the model's field that the column names. *)
FieldValue(m, column) ==
  CASE column = "id"        -> Val(m.ID)
    [] column = "str"       -> Val(m.Str)
    [] column = "null_time" -> Val(m.NullTime)

(* C30: Store.Create with models m1..mn builds one INSERT with one column
   list and n VALUES groups; group i binds the create-mode values of model
   mi in the order of the column list, whatever the slice they were handed
   in holds later, and Args has n times the number of columns elements. *)
C30_CreateGroups ==
  (call.op = "Create" /\ call.mm # <<>>) =>
    LET columns == InsertColumns(stq)
        n       == Len(call.mm)
    IN /\ stq.stmt = insertStmt
       /\ Len(stq.exprs) = 1
       /\ Len(stq.clauses) = n
       /\ \A i \in 1..n :
            /\ stq.clauses[i].kind = _valuesClause
            /\ stq.clauses[i].args
                 = [k \in 1..Len(columns) |-> FieldValue(call.mm[i], columns[k])]
            /\ Len(stq.clauses[i].items) = Len(columns)
       /\ Len(Args(stq)) = n * Len(columns)
       /\ Args(stq) = Flat([i \in 1..n |-> stq.clauses[i].args])
       /\ LastExec.args = Args(stq)
       /\ LastExec.query
            = "INSERT INTO models (" \o columns[1] \o ", " \o columns[2] \o ") VALUES "
              \o (IF n = 1 THEN "($1, $2)"
                  ELSE IF n = 2 THEN "($1, $2), ($3, $4)"
                  ELSE "($1, $2), ($3, $4), ($5, $6)")

(* Create has been called with two different models. *)
C30_Witness ==
  /\ call.op = "Create"
  /\ Len(call.mm) = 2
  /\ call.mm[1].ID = 1 /\ call.mm[2].ID = 2
  /\ execd # <<>>
  /\ LastExec.query = "INSERT INTO models (id, str) VALUES ($1, $2), ($3, $4)"
  /\ LastExec.args = <<Val(1), Val("a"), Val(2), Val("b")>>

====
